---- MODULE Spec2Model ----
(***************************************************************************)
(* A model of src/utils/numericalMethods.ts: the five root-finding solvers *)
(* (solveBisection, solveFalsePosition, solveFixedPoint, solveNewton,      *)
(* solveSecant), each as a state machine whose steps are the precondition  *)
(* checks, one loop iteration, and the result assembly.                    *)
(*                                                                         *)
(* Numbers.  A JavaScript number is modelled as a triple <<n, d, e>>:      *)
(*   d > 0 : the finite value (n / d) * 2^e, in canonical form (n and d    *)
(*           odd and coprime; zero is <<0, 1, 0>>);                        *)
(*   d = 0 : a non-finite value, <<0,0,0>> NaN, <<1,0,0>> +Infinity,       *)
(*           <<-1,0,0>> -Infinity.                                         *)
(* Arithmetic on finite values is exact; the binary exponent lets the      *)
(* program's thresholds 1e10 and 1e-12 be written exactly.                 *)
(*                                                                         *)
(* Sampling.  sampleFunction is a state machine of its own (SampleSpec:    *)
(* the call, one step per pass of its loop, the return), called with       *)
(* arguments drawn from small sets.  A solver's summary holds the curve it *)
(* sampled as the sampleFunction call that produces it (summary.sampled:   *)
(* the formula, the range and the sample count).                           *)
(*                                                                         *)
(* Calls together.  The variables pc .. result are the frame of one call.  *)
(* ConcSpec has several calls in progress: the frames of the others are    *)
(* set aside in sched, and Switch lets another call go on.                 *)
(*                                                                         *)
(* Components.  VisSpec and PlaySpec are the MethodVisualizer component of *)
(* src/components/MethodVisualizer.tsx (its playback state, timeout and    *)
(* effects), PageSpec the page of src/app/not-found.tsx (its deferred run  *)
(* and the result it shows); both keep their state in loc.                 *)
(***************************************************************************)
EXTENDS Integers, Sequences, FiniteSets, TLC

(* ------------------------------ numbers ------------------------------- *)

IAbs(i) == IF i < 0 THEN -i ELSE i

ISign(i) == IF i < 0 THEN -1 ELSE IF i > 0 THEN 1 ELSE 0

RECURSIVE GCD(_, _)
GCD(p, q) == IF q = 0 THEN p ELSE GCD(q, p % q)

RECURSIVE V2(_)
V2(m) == IF m # 0 /\ m % 2 = 0 THEN 1 + V2(m \div 2) ELSE 0

RECURSIVE IPow(_, _)
IPow(base, k) == IF k <= 0 THEN 1 ELSE base * IPow(base, k - 1)

NaN == <<0, 0, 0>>

PosInf == <<1, 0, 0>>

NegInf == <<-1, 0, 0>>

Zero == <<0, 1, 0>>

\* Number.isFinite
IsFinite(v) == v[2] # 0

\* Number.isNaN
IsNaN(v) == v[2] = 0 /\ v[1] = 0

\* Math.sign of a non-NaN value, as an integer
Sgn(v) == ISign(v[1])

\* the canonical form of (n / d) * 2^e, d # 0
Norm(n, d, e) ==
  IF n = 0 THEN Zero
  ELSE LET s  == ISign(n) * ISign(d)
           g  == GCD(IAbs(n), IAbs(d))
           n1 == IAbs(n) \div g
           d1 == IAbs(d) \div g
           p  == V2(n1)
           q  == V2(d1)
       IN  <<s * (n1 \div IPow(2, p)), d1 \div IPow(2, q), e + p - q>>

\* number literals
Num(i) == Norm(i, 1, 0)

Rat(n, d) == Norm(n, d, 0)

Pow2(k) == <<1, 1, k>>

Neg(v) == <<-v[1], v[2], v[3]>>

\* Math.abs
NAbs(v) == <<IAbs(v[1]), v[2], v[3]>>

\* x * y
Mul(x, y) ==
  IF IsNaN(x) \/ IsNaN(y) THEN NaN
  ELSE IF ~IsFinite(x) \/ ~IsFinite(y)
       THEN IF Sgn(x) * Sgn(y) = 0 THEN NaN
            ELSE <<Sgn(x) * Sgn(y), 0, 0>>
  ELSE IF x[1] = 0 \/ y[1] = 0 THEN Zero
  ELSE LET g1 == GCD(IAbs(x[1]), y[2])
           g2 == GCD(IAbs(y[1]), x[2])
       IN  Norm((x[1] \div g1) * (y[1] \div g2),
                (x[2] \div g2) * (y[2] \div g1),
                x[3] + y[3])

\* x + y
Add(x, y) ==
  IF IsNaN(x) \/ IsNaN(y) THEN NaN
  ELSE IF ~IsFinite(x)
       THEN IF ~IsFinite(y) /\ Sgn(x) # Sgn(y) THEN NaN ELSE x
  ELSE IF ~IsFinite(y) THEN y
  ELSE IF x[1] = 0 THEN y
  ELSE IF y[1] = 0 THEN x
  ELSE LET e  == IF x[3] < y[3] THEN x[3] ELSE y[3]
           g  == GCD(x[2], y[2])
           nx == x[1] * IPow(2, x[3] - e) * (y[2] \div g)
           ny == y[1] * IPow(2, y[3] - e) * (x[2] \div g)
       IN  Norm(nx + ny, (x[2] \div g) * y[2], e)

\* x - y
Sub(x, y) == Add(x, Neg(y))

\* x / y
Div(x, y) ==
  IF IsNaN(x) \/ IsNaN(y) THEN NaN
  ELSE IF ~IsFinite(y)
       THEN IF ~IsFinite(x) THEN NaN ELSE Zero
  ELSE IF y[1] = 0
       THEN IF Sgn(x) = 0 THEN NaN ELSE <<Sgn(x), 0, 0>>
  ELSE Mul(x, <<ISign(y[1]) * y[2], IAbs(y[1]), -y[3]>>)

\* p * 2^k < q for positive integers p, q, without forming p * 2^k
ShiftLess(p, k, q) ==
  IF k >= 0
  THEN IF k > 30 THEN FALSE ELSE p <= (q - 1) \div IPow(2, k)
  ELSE IF -k > 30 THEN TRUE ELSE q > p \div IPow(2, -k)

\* the number of bits of a positive integer
RECURSIVE BitLen(_)
BitLen(m) == IF m <= 0 THEN 0 ELSE 1 + BitLen(m \div 2)

\* x < y for positive finite x, y: decided by the binary magnitudes when they
\* differ enough, by cross-multiplication otherwise
PosLess(x, y) ==
  LET lox == BitLen(x[1]) - 1 - BitLen(x[2]) + x[3]
      hix == BitLen(x[1]) - BitLen(x[2]) + 1 + x[3]
      loy == BitLen(y[1]) - 1 - BitLen(y[2]) + y[3]
      hiy == BitLen(y[1]) - BitLen(y[2]) + 1 + y[3]
  IN  IF hix <= loy THEN TRUE
      ELSE IF lox >= hiy THEN FALSE
      ELSE ShiftLess(x[1] * y[2], x[3] - y[3], y[1] * x[2])

\* x < y (false when either is NaN)
Less(x, y) ==
  IF IsNaN(x) \/ IsNaN(y) THEN FALSE
  ELSE IF x = y THEN FALSE
  ELSE IF ~IsFinite(x) THEN Sgn(x) < 0
  ELSE IF ~IsFinite(y) THEN Sgn(y) > 0
  ELSE IF Sgn(x) # Sgn(y) THEN Sgn(x) < Sgn(y)
  ELSE IF Sgn(x) > 0 THEN PosLess(x, y)
  ELSE PosLess(Neg(y), Neg(x))

\* x > y
Greater(x, y) == Less(y, x)

\* x <= y (false when either is NaN)
LessEq(x, y) == ~IsNaN(x) /\ ~IsNaN(y) /\ ~Less(y, x)

(* ---------------------- the expression evaluator ---------------------- *)

\* the formulas the model passes as expr to the bracketing solvers ("x +"
\* does not parse)
Exprs == {"x", "x^2 - 2", "1/x", "x +"}

\* the formulas the model passes as expr to solveNewton and solveSecant
OpenExprs == Exprs \cup {"2^-39 * x + 1/8", "2^-41 * x"}

\* the formulas the model passes as gexpr
GExprs == {"x", "1/x", "2^20 * x", "x +"}

\* the outcome of an evaluation that throws (a parse error): no number at all
Thrown == <<0, 0, 1>>

\* The value of "x^3 - x - 2" needs more digits than an integer of the model
\* has: the cube of an abscissa m * 2^-s is formed exactly in limbs of 12 bits,
\* and the value is kept, as the program's double keeps 53 bits of it, to
\* MantissaBits significant bits and no finer than 2^-FractionBits.
LimbBase == 4096

FractionBits == 27

MantissaBits == 15

\* the limbs r[1] + r[2] * 4096 + ... + r[6] * 4096^5 of m^3, 0 <= m < 2^24
CubeLimbs(m) ==
  LET n0 == m % LimbBase
      n1 == m \div LimbBase
      s1 == (n0 * n0) \div LimbBase + 2 * n0 * n1
      s2 == s1 \div LimbBase + n1 * n1
      q0 == (n0 * n0) % LimbBase
      q1 == s1 % LimbBase
      q2 == s2 % LimbBase
      q3 == s2 \div LimbBase
      c1 == (q0 * n0) \div LimbBase + q1 * n0 + q0 * n1
      c2 == c1 \div LimbBase + q2 * n0 + q1 * n1
      c3 == c2 \div LimbBase + q3 * n0 + q2 * n1
      c4 == c3 \div LimbBase + q3 * n1
  IN  <<(q0 * n0) % LimbBase, c1 % LimbBase, c2 % LimbBase, c3 % LimbBase,
        c4 % LimbBase, c4 \div LimbBase>>

\* floor(r / 2^t) for a number r in limbs, t >= 0, when the quotient is below 2^31
LimbsShiftRight(r, t) ==
  LET a == t \div 12
      b == t % 12
      Part(i) == IF i > 6 \/ r[i] = 0 THEN 0
                 ELSE IF i = a + 1 THEN r[i] \div IPow(2, b)
                 ELSE r[i] * IPow(2, 12 * (i - a - 1) - b)
  IN  Part(a + 1) + Part(a + 2) + Part(a + 3) + Part(a + 4)

\* x^3 - x - 2 for a finite x = m * 2^-s with |x| <= 2, to the model's precision
Cubic(x) ==
  LET s   == IF x[3] < 0 THEN -x[3] ELSE 0
      m   == IAbs(x[1]) * IPow(2, IF x[3] > 0 THEN x[3] ELSE 0)
      x3  == IF 3 * s <= FractionBits
             THEN m * m * m * IPow(2, FractionBits - 3 * s)
             ELSE LimbsShiftRight(CubeLimbs(m), 3 * s - FractionBits)
      f   == Sgn(x) * x3 - Sgn(x) * m * IPow(2, FractionBits - s)
               - 2 * IPow(2, FractionBits)
      len == BitLen(IAbs(f))
      sh  == len - MantissaBits
  IN  IF len <= MantissaBits THEN Norm(f, 1, -FractionBits)
      ELSE Norm(ISign(f) * ((IAbs(f) + IPow(2, sh - 1)) \div IPow(2, sh)), 1,
                sh - FractionBits)

\* mathjs compile(expr).evaluate({x}), or Thrown
Evaluate(expr, x) ==
  CASE expr = "x"            -> x
    [] expr = "x^3 - x - 2"  -> IF IsFinite(x) THEN Cubic(x) ELSE NaN
    [] expr = "x^2 - 2"      -> Sub(Mul(x, x), Num(2))
    [] expr = "1/x"          -> Div(Num(1), x)
    [] expr = "2^20 * x"     -> Mul(Pow2(20), x)
    [] expr = "2^-39 * x + 1/8" -> Add(Mul(Pow2(-39), x), Pow2(-3))
    [] expr = "1"            -> Num(1)
    [] expr = "2 * x"        -> Mul(Num(2), x)
    [] expr = "-(1 / x ^ 2)" -> Neg(Div(Num(1), Mul(x, x)))
    [] expr = "2^-39"        -> Pow2(-39)
    [] expr = "2^-41 * x"    -> Mul(Pow2(-41), x)
    [] expr = "2^-41"        -> Pow2(-41)
    [] OTHER                 -> Thrown

\* mathjs derivative(expr, "x").toString(); "throw" when expr does not parse
Derivative(expr) ==
  CASE expr = "x"        -> "1"
    [] expr = "x^2 - 2"  -> "2 * x"
    [] expr = "1/x"      -> "-(1 / x ^ 2)"
    [] expr = "2^-39 * x + 1/8" -> "2^-39"
    [] expr = "2^-41 * x" -> "2^-41"
    [] OTHER             -> "throw"

\* lines 36-39: Number.isFinite(num) ? num : Number.NaN, and NaN from the
\* catch when the evaluation has thrown
FiniteOrNaN(val) ==
  IF val = Thrown THEN NaN
  ELSE IF IsFinite(val) THEN val ELSE NaN

\* evalf: the value of expr at x, NaN when it is not finite or evaluation throws
evalf(expr, x) == FiniteOrNaN(Evaluate(expr, x))

(* ------------------------- program constants -------------------------- *)

\* 1e10, the divergence limit of the open methods
DivergenceLimit == Norm(9765625, 1, 10)

\* 1e-12, the smallest usable derivative / denominator
ZeroThreshold == Norm(1, 244140625, -12)

\* 1e-6, the default tolerance
DefaultTol == Norm(1, 15625, -6)

\* the messages of the errors the solvers throw
NonFiniteEndpoint == "f(a) or f(b) is not finite. Check your function and bounds."

InvalidBracket == "f(a) and f(b) must have opposite signs. Choose different bounds."

NonFiniteCandidate == "Function evaluation resulted in non-finite value"

NonFiniteG == "g(x) evaluation resulted in non-finite value"

DivergingFixedPoint == "Method is diverging. Try a different g(x) formulation or initial guess."

NonFiniteNewton == "Function or derivative evaluation failed"

ZeroDerivative == "Zero derivative encountered. Method cannot continue."

DivergingNewton == "Method is diverging. Try a different initial guess."

ZeroDenominator == "Division by zero in secant method. Try different initial guesses."

NonFiniteSecant == "Function evaluation failed"

NonFiniteNext == "Next iteration resulted in non-finite value"

DivergingSecant == "Method is diverging. Try different initial guesses."

DerivativeSyntaxError == "SyntaxError"

(* --------------------- formatIterationValue --------------------------- *)

\* 5e-11, half of the last decimal place kept by toFixed(10)
HalfUlp == Norm(1, 9765625, -11)

\* <<floor(r * 10^cnt / den), (r * 10^cnt) % den>>, one decimal digit at a time
RECURSIVE LongDiv(_, _, _)
LongDiv(r, den, cnt) ==
  IF cnt = 0 THEN <<0, r>>
  ELSE LET prev == LongDiv(r, den, cnt - 1)
       IN  <<prev[1] * 10 + (prev[2] * 10) \div den, (prev[2] * 10) % den>>

\* A decimal with ten fraction digits is <<sign, intPart, hi, lo>>: intPart
\* a non-negative integer value, hi and lo the fraction digits 1-5 and 6-10.
Decimal(sign, ip, hi, lo) ==
  IF ip = Zero /\ hi = 0 /\ lo = 0 THEN <<0, Zero, 0, 0>>
  ELSE <<sign, ip, hi, lo>>

\* formatIterationValue: Number(value.toFixed(10)), the value rounded to ten
\* decimals (a tie away from zero); NaN and the infinities are kept
formatIterationValue(value) ==
  IF ~IsFinite(value) THEN <<Sgn(value), value, 0, 0>>
  ELSE IF (value[2] = 1 /\ value[3] >= 0) \/ Less(NAbs(value), HalfUlp)
       THEN Decimal(Sgn(value), IF value[3] >= 0 THEN NAbs(value) ELSE Zero, 0, 0)
  ELSE LET num == IAbs(value[1]) * IPow(2, IF value[3] > 0 THEN value[3] ELSE 0)
           den == value[2] * IPow(2, IF value[3] < 0 THEN -value[3] ELSE 0)
           h   == LongDiv(num % den, den, 5)
           l   == LongDiv(h[2], den, 5)
           up  == IF 2 * l[2] >= den THEN 1 ELSE 0
           lo  == (l[1] + up) % 100000
           c1  == (l[1] + up) \div 100000
           hi  == (h[1] + c1) % 100000
           c2  == (h[1] + c1) \div 100000
       IN  Decimal(Sgn(value), Num(num \div den + c2), hi, lo)

(* --------------------------- sampleFunction --------------------------- *)

\* n = 500, the number of samples when sampleFunction is not given one
DefaultSamples == 500

\* 1e6, the magnitude sample values are clamped to
ClampLimit == Norm(15625, 1, 6)

\* a faulty variant of Padding: a fifth of the range
Padding_fifth == Rat(1, 5)

\* 0.15, the fraction of the y-range added on both sides
Padding == Rat(3, 20)

\* a faulty variant of SampleX: the range is cut into n parts
SampleX_byN(from, to, n, i) ==
  Add(from, Mul(Div(Num(i), Num(n)), Sub(to, from)))

\* x = from + (i / (n - 1)) * (to - from)
SampleX(from, to, n, i) ==
  Add(from, Mul(Div(Num(i), Num(n - 1)), Sub(to, from)))

\* a faulty variant of Clamp: the clamped value loses its sign
Clamp_magnitude(y) ==
  IF Greater(NAbs(y), ClampLimit) THEN ClampLimit ELSE y

\* if (Math.abs(y) > 1e6) y = Math.sign(y) * 1e6
Clamp(y) ==
  IF Greater(NAbs(y), ClampLimit) THEN Mul(Num(Sgn(y)), ClampLimit) ELSE y

\* a faulty variant of EdgeRange: equal bounds are left as they are
EdgeRange_noFlat(yMin, yMax) ==
  IF yMin = PosInf THEN <<Num(-1), Num(1)>>
  ELSE <<yMin, yMax>>

\* "Handle edge cases": <<yMin, yMax>> when no sample was finite or all
\* finite samples were equal
EdgeRange(yMin, yMax) ==
  IF yMin = PosInf THEN <<Num(-1), Num(1)>>
  ELSE IF yMin = yMax THEN <<Sub(yMin, Num(1)), Add(yMax, Num(1))>>
  ELSE <<yMin, yMax>>

(* ------------------------------ inputs -------------------------------- *)

\* the largest maxIter a call is given
MaxIter == 3

\* the tolerances a call is given
Tols == {DefaultTol, Rat(1, 4), Num(1)}

\* the abscissas a call is given as a0, b0, x0 or x1, per formula
Points(expr) ==
  CASE expr = "x"        -> {Num(-1), Num(0), Num(1), Num(2)}
    [] expr = "x^2 - 2"  -> {Num(-1), Num(0), Num(1), Num(2)}
    [] expr = "1/x"      -> {Num(-1), Num(0), Num(1), Num(2)}
    [] expr = "2^20 * x" -> {Num(-1), Num(0), Num(1)}
    [] expr = "2^-39 * x + 1/8" -> {Num(0), Pow2(12)}
    [] OTHER             -> {Num(0), Num(1)}

\* the call solveBisection("x^3 - x - 2", -2, 2, {tol: 1e-6, maxIter: 50})
CubicCall ==
  [method |-> "bisection", expr |-> "x^3 - x - 2", a0 |-> Num(-2),
   b0 |-> Num(2), tol |-> DefaultTol, maxIter |-> 50]

\* the call solveFalsePosition("x", 0, 1, {tol: 0, maxIter: 2}), whose
\* candidate is the zero at a0 and never meets the tolerance
TieCall ==
  [method |-> "falsePosition", expr |-> "x", a0 |-> Num(0), b0 |-> Num(1),
   tol |-> Zero, maxIter |-> 2]

\* the initial guesses solveNewton is given
NewtonPoints(expr) ==
  IF expr = "1/x" THEN Points(expr) \cup {Pow2(21)} ELSE Points(expr)

\* the pairs of initial guesses <<x0, x1>> solveSecant is given
SecantGuesses(expr) ==
  (Points(expr) \X Points(expr)) \cup
    (IF expr = "x^2 - 2" THEN {<<Rat(-3, 2), Num(1)>>} ELSE {})

\* the formulas sampleFunction is given
SampleExprs == {"x", "x^2 - 2", "1/x", "2^20 * x", "x +"}

\* the values sampleFunction is given as from and to
SamplePoints == {Num(-1), Num(0), Num(1), Num(2)}

\* the largest n sampleFunction is given, but for the one call with SingularityN
MaxSamples == 4

\* the n of the call sampleFunction("1/x", -1, 1, 501)
SingularityN == 501

\* the calls of sampleFunction
SampleCalls ==
  [expr : SampleExprs, from : SamplePoints, to : SamplePoints, n : 0..MaxSamples]
    \cup {[expr |-> "1/x", from |-> Num(-1), to |-> Num(1), n |-> SingularityN]}

(* ------------------------------- state -------------------------------- *)

VARIABLES
  pc,         \* "idle", the running solver's name, "returned" or "thrown"
  args,       \* the arguments of the call: method, expr, a0, b0 / x0, x1, tol, maxIter
  loc,        \* the solver's loop variables (k, a, b, fa, fb, mid, c, x, ...)
  converged,  \* the solver's converged flag
  iters,      \* the iteration records pushed so far (rounded copies)
  steps,      \* history: the unrounded values each pushed record was made from
  thrown,     \* the message of the Error thrown, "" when none
  result,     \* the NumericalResult returned, <<>> when none
  sched       \* the other calls in progress: their frames, set aside

vars == <<pc, args, loc, converged, iters, steps, thrown, result, sched>>

\* no other call: the one call of the state runs from its start to its end
NoOthers == [preempted |-> FALSE, suspended |-> <<>>]

Init ==
  /\ pc = "idle"
  /\ args = [method |-> "none"]
  /\ loc = [k |-> 0]
  /\ converged = FALSE
  /\ iters = <<>>
  /\ steps = <<>>
  /\ thrown = ""
  /\ result = <<>>
  /\ sched = NoOthers

\* the call sampleFunction(expr, from, to) a solver makes before it returns;
\* its value (samples, yMin, yMax) is spread into the summary
Sampled(expr, range) ==
  [expr |-> expr, from |-> range[1], to |-> range[2], n |-> DefaultSamples]

\* a faulty variant of IterIndex: the records are numbered from 0
IterIndex_zeroBased(k) == k

\* iter: k + 1, the number a record gets in pass k of a loop
IterIndex(k) == k + 1

\* new Error(msg): the object a throw delivers to the caller, whose only
\* field set from the solver's data is the message
ErrorObject(msg) == [message |-> msg]

\* throw new Error(msg): the call ends without a result
Throw(msg) ==
  /\ pc' = "thrown"
  /\ thrown' = msg
  /\ UNCHANGED <<converged, result>>

(* ------------------------ bracketing solvers -------------------------- *)

\* a faulty variant of ValidateBracket: only f(a) is tested for NaN
ValidateBracket_firstOnly(fa, fb) ==
  IF IsNaN(fa) THEN NonFiniteEndpoint
  ELSE IF Greater(Mul(fa, fb), Zero) THEN InvalidBracket
  ELSE ""

\* a faulty variant of ValidateBracket: a zero at an endpoint is rejected
ValidateBracket_strict(fa, fb) ==
  IF IsNaN(fa) \/ IsNaN(fb) THEN NonFiniteEndpoint
  ELSE IF ~Less(Mul(fa, fb), Zero) THEN InvalidBracket
  ELSE ""

\* "Validate initial conditions": the message to throw, "" when valid
ValidateBracket(fa, fb) ==
  IF IsNaN(fa) \/ IsNaN(fb) THEN NonFiniteEndpoint
  ELSE IF Greater(Mul(fa, fb), Zero) THEN InvalidBracket
  ELSE ""

\* a faulty variant of Midpoint: the interval is cut at a third
Midpoint_third(a, b) == Add(a, Div(Sub(b, a), Num(3)))

\* a faulty variant of Midpoint: a midpoint finer than 2^-10 is cut to the
\* multiple of 2^-10 below it, as a value read back from a rounded copy would be
Midpoint_coarse(a, b) ==
  LET m == Mul(Rat(1, 2), Add(a, b))
  IN  IF m[2] = 1 /\ m[3] < -10
      THEN Norm((m[1] - (m[1] % IPow(2, -10 - m[3]))) \div IPow(2, -10 - m[3]), 1, -10)
      ELSE m

\* mid = 0.5 * (a + b)
Midpoint(a, b) == Mul(Rat(1, 2), Add(a, b))

\* a faulty variant of BisectionConverged: the width test is dropped
BisectionConverged_noWidth(fmid, width, tol) == Less(NAbs(fmid), tol)

\* Math.abs(fmid) < tol || width / 2 < tol
BisectionConverged(fmid, width, tol) ==
  Less(NAbs(fmid), tol) \/ Less(Div(width, Num(2)), tol)

\* a faulty variant of BracketPlotRange: the range follows the interval as the
\* loop narrows it
BracketPlotRange_current == <<Sub(loc.a, Num(1)), Add(loc.b, Num(1))>>

\* the plot range of the bracketing methods: [a0 - 1, b0 + 1]
BracketPlotRange == <<Sub(args.a0, Num(1)), Add(args.b0, Num(1))>>

\* solveBisection(expr, a0, b0, {tol, maxIter}) up to the loop
solveBisection(expr, a0, b0, tol, maxIter) ==
  LET fa == evalf(expr, a0)
      fb == evalf(expr, b0)
      msg == ValidateBracket(fa, fb)
  IN  /\ args' = [method |-> "bisection", expr |-> expr, a0 |-> a0,
                  b0 |-> b0, tol |-> tol, maxIter |-> maxIter]
      /\ loc' = [k |-> 0, a |-> a0, b |-> b0, fa |-> fa, fb |-> fb, mid |-> a0]
      /\ UNCHANGED <<iters, steps>>
      /\ IF msg # "" THEN Throw(msg)
         ELSE /\ pc' = "bisection"
              /\ converged' = FALSE
              /\ UNCHANGED <<thrown, result>>

\* a call of solveBisection with arguments from the input sets
CallBisection ==
  /\ pc = "idle"
  /\ UNCHANGED sched
  /\ \/ \E e \in Exprs, t \in Tols, m \in 0..MaxIter :
          \E p \in Points(e), q \in Points(e) : solveBisection(e, p, q, t, m)
     \/ \E c \in {CubicCall} :
          solveBisection(c.expr, c.a0, c.b0, c.tol, c.maxIter)

\* a faulty variant of BisectionReplacesB: the other half is kept
BisectionReplacesB_reversed(fa, fmid) == ~LessEq(Mul(fa, fmid), Zero)

\* line 154: the half kept is [a, mid] when fa * fmid <= 0
BisectionReplacesB(fa, fmid) == LessEq(Mul(fa, fmid), Zero)

\* one pass through the body of solveBisection's loop
BisectionStep ==
  /\ pc = "bisection" /\ loc.k < args.maxIter /\ ~converged
  /\ UNCHANGED sched
  /\ \E mid \in {Midpoint(loc.a, loc.b)} :
     \E fmid \in {evalf(args.expr, mid)} :
     LET width == NAbs(Sub(loc.b, loc.a))
         error == NAbs(fmid)
     IN  /\ iters' = Append(iters,
                [iter  |-> IterIndex(loc.k),
                 a     |-> formatIterationValue(loc.a),
                 b     |-> formatIterationValue(loc.b),
                 mid   |-> formatIterationValue(mid),
                 fx    |-> formatIterationValue(fmid),
                 width |-> formatIterationValue(width),
                 error |-> formatIterationValue(error)])
         /\ steps' = Append(steps,
                [a |-> loc.a, b |-> loc.b, fa |-> loc.fa, fb |-> loc.fb,
                 cand |-> mid, fcand |-> fmid, width |-> width, error |-> error])
         /\ UNCHANGED args
         /\ IF ~IsFinite(fmid)
            THEN /\ loc' = [loc EXCEPT !.mid = mid]
                 /\ Throw(NonFiniteCandidate)
            ELSE IF BisectionConverged(fmid, width, args.tol)
            THEN /\ loc' = [loc EXCEPT !.mid = mid]
                 /\ converged' = TRUE
                 /\ UNCHANGED <<pc, thrown, result>>
            ELSE /\ loc' = IF BisectionReplacesB(loc.fa, fmid)
                           THEN [loc EXCEPT !.mid = mid, !.b = mid, !.fb = fmid,
                                            !.k = loc.k + 1]
                           ELSE [loc EXCEPT !.mid = mid, !.a = mid, !.fa = fmid,
                                            !.k = loc.k + 1]
                 /\ UNCHANGED <<pc, converged, thrown, result>>

\* solveBisection after the loop: the result is assembled and returned
BisectionReturn ==
  /\ pc = "bisection" /\ (converged \/ loc.k >= args.maxIter)
  /\ UNCHANGED sched
  /\ pc' = "returned"
  /\ result' = [iterations |-> iters,
                summary |-> [root |-> loc.mid, iterations |-> Len(iters),
                             converged |-> converged,
                             plotRange |-> BracketPlotRange,
                             initialInterval |-> <<args.a0, args.b0>>,
                             sampled |-> Sampled(args.expr, BracketPlotRange)]]
  /\ UNCHANGED <<args, loc, converged, iters, steps, thrown>>

\* c = (a * fb - b * fa) / (fb - fa)
Interpolate(a, b, fa, fb) ==
  Div(Sub(Mul(a, fb), Mul(b, fa)), Sub(fb, fa))

\* Math.abs(fc) < tol (the width plays no part)
FalsePositionConverged(fc, width, tol) == Less(NAbs(fc), tol)

\* solveFalsePosition(expr, a0, b0, {tol, maxIter}) up to the loop
solveFalsePosition(expr, a0, b0, tol, maxIter) ==
  LET fa == evalf(expr, a0)
      fb == evalf(expr, b0)
      msg == ValidateBracket(fa, fb)
  IN  /\ args' = [method |-> "falsePosition", expr |-> expr, a0 |-> a0,
                  b0 |-> b0, tol |-> tol, maxIter |-> maxIter]
      /\ loc' = [k |-> 0, a |-> a0, b |-> b0, fa |-> fa, fb |-> fb, c |-> a0]
      /\ UNCHANGED <<iters, steps>>
      /\ IF msg # "" THEN Throw(msg)
         ELSE /\ pc' = "falsePosition"
              /\ converged' = FALSE
              /\ UNCHANGED <<thrown, result>>

\* a call of solveFalsePosition with arguments from the input sets
CallFalsePosition ==
  /\ pc = "idle"
  /\ UNCHANGED sched
  /\ \/ \E e \in Exprs, t \in Tols, m \in 0..MaxIter :
          \E p \in Points(e), q \in Points(e) : solveFalsePosition(e, p, q, t, m)
     \/ \E c \in {TieCall} :
          solveFalsePosition(c.expr, c.a0, c.b0, c.tol, c.maxIter)

\* one pass through the body of solveFalsePosition's loop
FalsePositionStep ==
  /\ pc = "falsePosition" /\ loc.k < args.maxIter /\ ~converged
  /\ UNCHANGED sched
  /\ LET c     == Interpolate(loc.a, loc.b, loc.fa, loc.fb)
         fc    == evalf(args.expr, c)
         error == NAbs(fc)
     IN  /\ iters' = Append(iters,
                [iter  |-> IterIndex(loc.k),
                 a     |-> formatIterationValue(loc.a),
                 b     |-> formatIterationValue(loc.b),
                 c     |-> formatIterationValue(c),
                 fa    |-> formatIterationValue(loc.fa),
                 fb    |-> formatIterationValue(loc.fb),
                 fc    |-> formatIterationValue(fc),
                 error |-> formatIterationValue(error)])
         /\ steps' = Append(steps,
                [a |-> loc.a, b |-> loc.b, fa |-> loc.fa, fb |-> loc.fb,
                 cand |-> c, fcand |-> fc,
                 width |-> NAbs(Sub(loc.b, loc.a)), error |-> error])
         /\ UNCHANGED args
         /\ IF ~IsFinite(fc)
            THEN /\ loc' = [loc EXCEPT !.c = c]
                 /\ Throw(NonFiniteCandidate)
            ELSE IF FalsePositionConverged(fc, NAbs(Sub(loc.b, loc.a)), args.tol)
            THEN /\ loc' = [loc EXCEPT !.c = c]
                 /\ converged' = TRUE
                 /\ UNCHANGED <<pc, thrown, result>>
            ELSE /\ loc' = IF Less(Mul(loc.fa, fc), Zero)
                           THEN [loc EXCEPT !.c = c, !.b = c, !.fb = fc,
                                            !.k = loc.k + 1]
                           ELSE [loc EXCEPT !.c = c, !.a = c, !.fa = fc,
                                            !.k = loc.k + 1]
                 /\ UNCHANGED <<pc, converged, thrown, result>>

\* solveFalsePosition after the loop: the result is assembled and returned
FalsePositionReturn ==
  /\ pc = "falsePosition" /\ (converged \/ loc.k >= args.maxIter)
  /\ UNCHANGED sched
  /\ pc' = "returned"
  /\ result' = [iterations |-> iters,
                summary |-> [root |-> loc.c, iterations |-> Len(iters),
                             converged |-> converged,
                             plotRange |-> BracketPlotRange,
                             initialInterval |-> <<args.a0, args.b0>>,
                             sampled |-> Sampled(args.expr, BracketPlotRange)]]
  /\ UNCHANGED <<args, loc, converged, iters, steps, thrown>>

(* --------------------------- open methods ----------------------------- *)

\* a faulty variant of Diverging: the guard is absent
Diverging_never(xnext) == FALSE

\* Math.abs(xnext) > 1e10
Diverging(xnext) == Greater(NAbs(xnext), DivergenceLimit)

\* a faulty variant of FixedPointConverged: an iterate that did not move is
\* not taken as converged
FixedPointConverged_moved(diff, tol) == Less(Zero, diff) /\ Less(diff, tol)

\* diff < tol
FixedPointConverged(diff, tol) == Less(diff, tol)

\* the plot range of Fixed-Point and Newton: [x0 - 5, x0 + 5]
OpenPlotRange == <<Sub(args.x0, Num(5)), Add(args.x0, Num(5))>>

\* solveFixedPoint(gexpr, x0, {tol, maxIter}) up to the loop
solveFixedPoint(gexpr, x0, tol, maxIter) ==
  /\ args' = [method |-> "fixedPoint", gexpr |-> gexpr, x0 |-> x0,
              tol |-> tol, maxIter |-> maxIter]
  /\ loc' = [k |-> 0, x |-> x0]
  /\ pc' = "fixedPoint"
  /\ converged' = FALSE
  /\ UNCHANGED <<iters, steps, thrown, result>>

\* a call of solveFixedPoint with arguments from the input sets
CallFixedPoint ==
  /\ pc = "idle"
  /\ UNCHANGED sched
  /\ \E e \in GExprs, t \in Tols, m \in 0..MaxIter :
       \E p \in Points(e) : solveFixedPoint(e, p, t, m)

\* a faulty variant of FixedPointStep: a pass that goes on does not count
FixedPointStep_uncounted ==
  /\ pc = "fixedPoint" /\ loc.k < args.maxIter /\ ~converged
  /\ UNCHANGED sched
  /\ LET xnext == evalf(args.gexpr, loc.x)
         diff  == NAbs(Sub(xnext, loc.x))
     IN  /\ iters' = Append(iters,
                [iter |-> IterIndex(loc.k),
                 x    |-> formatIterationValue(loc.x),
                 gx   |-> formatIterationValue(xnext),
                 diff |-> formatIterationValue(diff)])
         /\ steps' = Append(steps, [x |-> loc.x, xnext |-> xnext, diff |-> diff])
         /\ UNCHANGED args
         /\ IF ~IsFinite(xnext)
            THEN /\ Throw(NonFiniteG)
                 /\ UNCHANGED loc
            ELSE IF FixedPointConverged(diff, args.tol)
            THEN /\ loc' = [loc EXCEPT !.x = xnext]
                 /\ converged' = TRUE
                 /\ UNCHANGED <<pc, thrown, result>>
            ELSE IF Diverging(xnext)
            THEN /\ Throw(DivergingFixedPoint)
                 /\ UNCHANGED loc
            ELSE /\ loc' = [loc EXCEPT !.x = xnext]
                 /\ UNCHANGED <<pc, converged, thrown, result>>

\* one pass through the body of solveFixedPoint's loop
FixedPointStep ==
  /\ pc = "fixedPoint" /\ loc.k < args.maxIter /\ ~converged
  /\ UNCHANGED sched
  /\ LET xnext == evalf(args.gexpr, loc.x)
         diff  == NAbs(Sub(xnext, loc.x))
     IN  /\ iters' = Append(iters,
                [iter |-> IterIndex(loc.k),
                 x    |-> formatIterationValue(loc.x),
                 gx   |-> formatIterationValue(xnext),
                 diff |-> formatIterationValue(diff)])
         /\ steps' = Append(steps, [x |-> loc.x, xnext |-> xnext, diff |-> diff])
         /\ UNCHANGED args
         /\ IF ~IsFinite(xnext)
            THEN /\ Throw(NonFiniteG)
                 /\ UNCHANGED loc
            ELSE IF FixedPointConverged(diff, args.tol)
            THEN /\ loc' = [loc EXCEPT !.x = xnext]
                 /\ converged' = TRUE
                 /\ UNCHANGED <<pc, thrown, result>>
            ELSE IF Diverging(xnext)
            THEN /\ Throw(DivergingFixedPoint)
                 /\ UNCHANGED loc
            ELSE /\ loc' = [loc EXCEPT !.x = xnext, !.k = loc.k + 1]
                 /\ UNCHANGED <<pc, converged, thrown, result>>

\* solveFixedPoint after the loop: the result is assembled and returned
FixedPointReturn ==
  /\ pc = "fixedPoint" /\ (converged \/ loc.k >= args.maxIter)
  /\ UNCHANGED sched
  /\ pc' = "returned"
  /\ result' = [iterations |-> iters,
                summary |-> [root |-> loc.x, iterations |-> Len(iters),
                             converged |-> converged,
                             plotRange |-> OpenPlotRange,
                             sampled |-> Sampled(args.gexpr, OpenPlotRange)]]
  /\ UNCHANGED <<args, loc, converged, iters, steps, thrown>>

\* a faulty variant of OpenConverged: only the step size is tested
OpenConverged_diffOnly(diff, error, tol) == Less(diff, tol)

\* diff < tol || error < tol (Newton-Raphson and Secant)
OpenConverged(diff, error, tol) == Less(diff, tol) \/ Less(error, tol)

\* a faulty variant of DenominatorIsZero: only an exact zero is rejected
DenominatorIsZero_exact(denominator) == denominator = Zero

\* a faulty variant of DerivativeIsZero: only an exact zero is rejected
DerivativeIsZero_exact(dfx) == dfx = Zero

\* Math.abs(dfx) < 1e-12
DerivativeIsZero(dfx) == Less(NAbs(dfx), ZeroThreshold)

\* solveNewton(expr, x0, {tol, maxIter}) up to the loop
solveNewton(expr, x0, tol, maxIter) ==
  /\ args' = [method |-> "newton", expr |-> expr, x0 |-> x0,
              tol |-> tol, maxIter |-> maxIter]
  /\ loc' = [k |-> 0, x |-> x0, dExpr |-> Derivative(expr)]
  /\ UNCHANGED <<iters, steps>>
  /\ IF Derivative(expr) = "throw" THEN Throw(DerivativeSyntaxError)
     ELSE /\ pc' = "newton"
          /\ converged' = FALSE
          /\ UNCHANGED <<thrown, result>>

\* a call of solveNewton with arguments from the input sets
CallNewton ==
  /\ pc = "idle"
  /\ UNCHANGED sched
  /\ \E e \in OpenExprs, t \in Tols, m \in 0..MaxIter :
       \E p \in NewtonPoints(e) : solveNewton(e, p, t, m)

\* one pass through the body of solveNewton's loop
NewtonStep ==
  /\ pc = "newton" /\ loc.k < args.maxIter /\ ~converged
  /\ UNCHANGED sched
  /\ LET fx    == evalf(args.expr, loc.x)
         dfx   == evalf(loc.dExpr, loc.x)
         xnext == Sub(loc.x, Div(fx, dfx))
         error == NAbs(fx)
         diff  == NAbs(Sub(xnext, loc.x))
     IN  /\ UNCHANGED args
         /\ IF ~IsFinite(fx) \/ ~IsFinite(dfx)
            THEN /\ Throw(NonFiniteNewton)
                 /\ UNCHANGED <<loc, iters, steps>>
            ELSE IF DerivativeIsZero(dfx)
            THEN /\ Throw(ZeroDerivative)
                 /\ UNCHANGED <<loc, iters, steps>>
            ELSE /\ iters' = Append(iters,
                        [iter  |-> IterIndex(loc.k),
                         x     |-> formatIterationValue(loc.x),
                         fx    |-> formatIterationValue(fx),
                         dfx   |-> formatIterationValue(dfx),
                         xnext |-> formatIterationValue(xnext),
                         error |-> formatIterationValue(error),
                         diff  |-> formatIterationValue(diff)])
                 /\ steps' = Append(steps,
                        [x |-> loc.x, fx |-> fx, dfx |-> dfx, xnext |-> xnext,
                         error |-> error, diff |-> diff])
                 /\ IF OpenConverged(diff, error, args.tol)
                    THEN /\ loc' = [loc EXCEPT !.x = xnext]
                         /\ converged' = TRUE
                         /\ UNCHANGED <<pc, thrown, result>>
                    ELSE IF Diverging(xnext)
                    THEN /\ Throw(DivergingNewton)
                         /\ UNCHANGED loc
                    ELSE /\ loc' = [loc EXCEPT !.x = xnext, !.k = loc.k + 1]
                         /\ UNCHANGED <<pc, converged, thrown, result>>

\* a faulty variant of NewtonReturn: the root reported is the initial guess
NewtonReturn_firstGuess ==
  /\ pc = "newton" /\ (converged \/ loc.k >= args.maxIter)
  /\ UNCHANGED sched
  /\ pc' = "returned"
  /\ result' = [iterations |-> iters,
                summary |-> [root |-> args.x0, iterations |-> Len(iters),
                             converged |-> converged,
                             plotRange |-> OpenPlotRange,
                             derivative |-> loc.dExpr,
                             sampled |-> Sampled(args.expr, OpenPlotRange)]]
  /\ UNCHANGED <<args, loc, converged, iters, steps, thrown>>

\* solveNewton after the loop: the result is assembled and returned
NewtonReturn ==
  /\ pc = "newton" /\ (converged \/ loc.k >= args.maxIter)
  /\ UNCHANGED sched
  /\ pc' = "returned"
  /\ result' = [iterations |-> iters,
                summary |-> [root |-> loc.x, iterations |-> Len(iters),
                             converged |-> converged,
                             plotRange |-> OpenPlotRange,
                             derivative |-> loc.dExpr,
                             sampled |-> Sampled(args.expr, OpenPlotRange)]]
  /\ UNCHANGED <<args, loc, converged, iters, steps, thrown>>

\* Math.min and Math.max of two finite values
NMin(x, y) == IF Less(y, x) THEN y ELSE x

NMax(x, y) == IF Less(x, y) THEN y ELSE x

\* the plot range of Secant: [min(x0, x1) - 5, max(x0, x1) + 5]
SecantPlotRange ==
  <<Sub(NMin(args.x0, args.x1), Num(5)), Add(NMax(args.x0, args.x1), Num(5))>>

\* Math.abs(denominator) < 1e-12
DenominatorIsZero(denominator) == Less(NAbs(denominator), ZeroThreshold)

\* a faulty variant of solveSecant: the two guesses are taken in the other
\* order
solveSecant_swapped(expr, x0, x1, tol, maxIter) ==
  /\ args' = [method |-> "secant", expr |-> expr, x0 |-> x0, x1 |-> x1,
              tol |-> tol, maxIter |-> maxIter]
  /\ loc' = [k |-> 0, xprev |-> x1, x |-> x0,
             fprev |-> evalf(expr, x1), fx |-> evalf(expr, x0)]
  /\ pc' = "secant"
  /\ converged' = FALSE
  /\ UNCHANGED <<iters, steps, thrown, result>>

\* solveSecant(expr, x0, x1, {tol, maxIter}) up to the loop
solveSecant(expr, x0, x1, tol, maxIter) ==
  /\ args' = [method |-> "secant", expr |-> expr, x0 |-> x0, x1 |-> x1,
              tol |-> tol, maxIter |-> maxIter]
  /\ loc' = [k |-> 0, xprev |-> x0, x |-> x1,
             fprev |-> evalf(expr, x0), fx |-> evalf(expr, x1)]
  /\ pc' = "secant"
  /\ converged' = FALSE
  /\ UNCHANGED <<iters, steps, thrown, result>>

\* a call of solveSecant with arguments from the input sets
CallSecant ==
  /\ pc = "idle"
  /\ UNCHANGED sched
  /\ \E e \in OpenExprs, t \in Tols, m \in 0..MaxIter :
       \E g \in SecantGuesses(e) : solveSecant(e, g[1], g[2], t, m)

\* one pass through the body of solveSecant's loop
SecantStep ==
  /\ pc = "secant" /\ loc.k < args.maxIter /\ ~converged
  /\ UNCHANGED sched
  /\ LET denominator == Sub(loc.fx, loc.fprev)
         xnext == Sub(loc.x, Div(Mul(loc.fx, Sub(loc.x, loc.xprev)), denominator))
         error == NAbs(loc.fx)
         diff  == NAbs(Sub(xnext, loc.x))
     IN  /\ UNCHANGED args
         /\ IF DenominatorIsZero(denominator)
            THEN /\ Throw(ZeroDenominator)
                 /\ UNCHANGED <<loc, iters, steps>>
            ELSE IF ~IsFinite(loc.fx) \/ ~IsFinite(loc.fprev)
            THEN /\ Throw(NonFiniteSecant)
                 /\ UNCHANGED <<loc, iters, steps>>
            ELSE /\ iters' = Append(iters,
                        [iter  |-> IterIndex(loc.k),
                         xprev |-> formatIterationValue(loc.xprev),
                         x     |-> formatIterationValue(loc.x),
                         fprev |-> formatIterationValue(loc.fprev),
                         fx    |-> formatIterationValue(loc.fx),
                         xnext |-> formatIterationValue(xnext),
                         error |-> formatIterationValue(error),
                         diff  |-> formatIterationValue(diff)])
                 /\ steps' = Append(steps,
                        [xprev |-> loc.xprev, x |-> loc.x, fprev |-> loc.fprev,
                         fx |-> loc.fx, xnext |-> xnext,
                         error |-> error, diff |-> diff])
                 /\ IF ~IsFinite(xnext)
                    THEN /\ Throw(NonFiniteNext)
                         /\ UNCHANGED loc
                    ELSE IF OpenConverged(diff, error, args.tol)
                    THEN /\ loc' = [loc EXCEPT !.x = xnext]
                         /\ converged' = TRUE
                         /\ UNCHANGED <<pc, thrown, result>>
                    ELSE IF Diverging(xnext)
                    THEN /\ Throw(DivergingSecant)
                         /\ UNCHANGED loc
                    ELSE /\ loc' = [loc EXCEPT !.xprev = loc.x, !.fprev = loc.fx,
                                               !.x = xnext,
                                               !.fx = evalf(args.expr, xnext),
                                               !.k = loc.k + 1]
                         /\ UNCHANGED <<pc, converged, thrown, result>>

\* solveSecant after the loop: the result is assembled and returned
SecantReturn ==
  /\ pc = "secant" /\ (converged \/ loc.k >= args.maxIter)
  /\ UNCHANGED sched
  /\ pc' = "returned"
  /\ result' = [iterations |-> iters,
                summary |-> [root |-> loc.x, iterations |-> Len(iters),
                             converged |-> converged,
                             plotRange |-> SecantPlotRange,
                             sampled |-> Sampled(args.expr, SecantPlotRange)]]
  /\ UNCHANGED <<args, loc, converged, iters, steps, thrown>>

Next ==
  \/ CallBisection \/ BisectionStep \/ BisectionReturn
  \/ CallFalsePosition \/ FalsePositionStep \/ FalsePositionReturn
  \/ CallFixedPoint \/ FixedPointStep \/ FixedPointReturn
  \/ CallNewton \/ NewtonStep \/ NewtonReturn
  \/ CallSecant \/ SecantStep \/ SecantReturn

Spec == Init /\ [][Next]_vars

\* the steps of a call that is under way
Advance ==
  \/ BisectionStep \/ BisectionReturn
  \/ FalsePositionStep \/ FalsePositionReturn
  \/ FixedPointStep \/ FixedPointReturn
  \/ NewtonStep \/ NewtonReturn
  \/ SecantStep \/ SecantReturn

\* a solver is running (in its loop or about to return)
Running ==
  pc \in {"bisection", "falsePosition", "fixedPoint", "newton", "secant"}

\* Weak fairness of Advance, WF_vars(Advance), with ENABLED <<Advance>>_vars
\* written out: it is Running, since a running solver can always take its
\* next pass (k < maxIter and not converged) or return (otherwise), and
\* either changes the state.
AdvanceFairness == []<>(~Running) \/ []<><<Advance>>_vars

\* a call, once made, runs on: the solvers are synchronous functions, so the
\* next statement of a call under way is always executed
LiveSpec == Spec /\ AdvanceFairness

(* ----------------------- sampleFunction, called ----------------------- *)

\* sampleFunction(expr, from, to, n) up to the loop
CallSampleFunction ==
  /\ pc = "idle"
  /\ UNCHANGED sched
  /\ \E c \in SampleCalls :
       args' = [method |-> "sampleFunction", expr |-> c.expr,
                from |-> c.from, to |-> c.to, n |-> c.n]
  /\ loc' = [i |-> 0, samples |-> <<>>, yMin |-> PosInf, yMax |-> NegInf]
  /\ pc' = "sampleFunction"
  /\ UNCHANGED <<converged, iters, steps, thrown, result>>

\* one pass through the body of sampleFunction's loop
SampleStep ==
  /\ pc = "sampleFunction" /\ loc.i < args.n
  /\ UNCHANGED sched
  /\ LET x   == SampleX(args.from, args.to, args.n, loc.i)
         val == evalf(args.expr, x)
         y   == IF IsFinite(val) THEN Clamp(val) ELSE NaN
     IN  loc' = [i |-> loc.i + 1,
                 samples |-> Append(loc.samples, [x |-> x, y |-> y]),
                 yMin |-> IF IsFinite(val) /\ Less(y, loc.yMin)
                          THEN y ELSE loc.yMin,
                 yMax |-> IF IsFinite(val) /\ Greater(y, loc.yMax)
                          THEN y ELSE loc.yMax]
  /\ UNCHANGED <<pc, args, converged, iters, steps, thrown, result>>

\* sampleFunction after the loop: the edge cases, the padding and the return
SampleReturn ==
  /\ pc = "sampleFunction" /\ loc.i >= args.n
  /\ UNCHANGED sched
  /\ LET range    == EdgeRange(loc.yMin, loc.yMax)
         yPadding == Mul(Sub(range[2], range[1]), Padding)
     IN  result' = [samples |-> loc.samples,
                    yMin |-> Sub(range[1], yPadding),
                    yMax |-> Add(range[2], yPadding)]
  /\ pc' = "returned"
  /\ UNCHANGED <<args, loc, converged, iters, steps, thrown>>

SampleNext == CallSampleFunction \/ SampleStep \/ SampleReturn

SampleSpec == Init /\ [][SampleNext]_vars

(* ------------------------ calls in progress together ------------------ *)

\* the number of calls in progress together
Calls == 3

\* the calls made when several are in progress together
ConcurrentCalls ==
  { [method |-> "bisection", expr |-> "x^2 - 2", a0 |-> Num(1), b0 |-> Num(2),
     tol |-> Rat(1, 4), maxIter |-> 2],
    [method |-> "falsePosition", expr |-> "x^2 - 2", a0 |-> Num(1), b0 |-> Num(2),
     tol |-> DefaultTol, maxIter |-> 1],
    [method |-> "fixedPoint", gexpr |-> "2^20 * x", x0 |-> Num(1),
     tol |-> DefaultTol, maxIter |-> 1],
    [method |-> "secant", expr |-> "x^2 - 2", x0 |-> Rat(-3, 2), x1 |-> Num(1),
     tol |-> DefaultTol, maxIter |-> 1],
    [method |-> "secant", expr |-> "x^2 - 2", x0 |-> Rat(-3, 2), x1 |-> Num(1),
     tol |-> DefaultTol, maxIter |-> 2] }

\* the frame of the call the variables hold: its arguments, its locals (a, b,
\* fa, fb, mid, x, ..., iters, converged) and its outcome; preempted records
\* that the call was set aside between its start and its end
Frame ==
  [pc |-> pc, args |-> args, loc |-> loc, converged |-> converged,
   iters |-> iters, steps |-> steps, thrown |-> thrown, result |-> result,
   preempted |-> sched.preempted]

\* the frame of a call not made yet
IdleFrame ==
  [pc |-> "idle", args |-> [method |-> "none"], loc |-> [k |-> 0],
   converged |-> FALSE, iters |-> <<>>, steps |-> <<>>, thrown |-> "",
   result |-> <<>>, preempted |-> FALSE]

\* the frames of all calls
AllFrames == {Frame} \cup {sched.suspended[i] : i \in 1..Len(sched.suspended)}

ConcInit ==
  /\ pc = "idle"
  /\ args = [method |-> "none"]
  /\ loc = [k |-> 0]
  /\ converged = FALSE
  /\ iters = <<>>
  /\ steps = <<>>
  /\ thrown = ""
  /\ result = <<>>
  /\ sched = [preempted |-> FALSE,
              suspended |-> [i \in 1..(Calls - 1) |-> IdleFrame]]

\* a faulty variant of Switch: iters is one array of the module, which every
\* call pushes its records to
Switch_sharedIters(i) ==
  /\ i \in 1..Len(sched.suspended)
  /\ sched.suspended[i].pc \notin {"returned", "thrown"}
  /\ pc' = sched.suspended[i].pc
  /\ args' = sched.suspended[i].args
  /\ loc' = sched.suspended[i].loc
  /\ converged' = sched.suspended[i].converged
  /\ UNCHANGED iters
  /\ steps' = sched.suspended[i].steps
  /\ thrown' = sched.suspended[i].thrown
  /\ result' = sched.suspended[i].result
  /\ sched' = [preempted |-> sched.suspended[i].preempted,
               suspended |-> [sched.suspended EXCEPT
                   ![i] = [Frame EXCEPT !.preempted = sched.preempted \/ Running]]]

\* the call under way is set aside and call i, not ended, goes on: every
\* variable of a solver is a local of the call (let a, b, fa, fb, mid,
\* converged; const iters), so each call finds its own values again
Switch(i) ==
  /\ i \in 1..Len(sched.suspended)
  /\ sched.suspended[i].pc \notin {"returned", "thrown"}
  /\ pc' = sched.suspended[i].pc
  /\ args' = sched.suspended[i].args
  /\ loc' = sched.suspended[i].loc
  /\ converged' = sched.suspended[i].converged
  /\ iters' = sched.suspended[i].iters
  /\ steps' = sched.suspended[i].steps
  /\ thrown' = sched.suspended[i].thrown
  /\ result' = sched.suspended[i].result
  /\ sched' = [preempted |-> sched.suspended[i].preempted,
               suspended |-> [sched.suspended EXCEPT
                   ![i] = [Frame EXCEPT !.preempted = sched.preempted \/ Running]]]

\* a call is made beside those in progress, with arguments from ConcurrentCalls
ConcCallBisection ==
  /\ pc = "idle"
  /\ UNCHANGED sched
  /\ \E c \in {d \in ConcurrentCalls : d.method = "bisection"} :
       solveBisection(c.expr, c.a0, c.b0, c.tol, c.maxIter)

ConcCallFalsePosition ==
  /\ pc = "idle"
  /\ UNCHANGED sched
  /\ \E c \in {d \in ConcurrentCalls : d.method = "falsePosition"} :
       solveFalsePosition(c.expr, c.a0, c.b0, c.tol, c.maxIter)

ConcCallFixedPoint ==
  /\ pc = "idle"
  /\ UNCHANGED sched
  /\ \E c \in {d \in ConcurrentCalls : d.method = "fixedPoint"} :
       solveFixedPoint(c.gexpr, c.x0, c.tol, c.maxIter)

ConcCallSecant ==
  /\ pc = "idle"
  /\ UNCHANGED sched
  /\ \E c \in {d \in ConcurrentCalls : d.method = "secant"} :
       solveSecant(c.expr, c.x0, c.x1, c.tol, c.maxIter)

ConcNext ==
  \/ ConcCallBisection \/ BisectionStep \/ BisectionReturn
  \/ ConcCallFalsePosition \/ FalsePositionStep \/ FalsePositionReturn
  \/ ConcCallFixedPoint \/ FixedPointStep \/ FixedPointReturn
  \/ ConcCallSecant \/ SecantStep \/ SecantReturn
  \/ \E i \in 1..(Calls - 1) : Switch(i)

ConcSpec == ConcInit /\ [][ConcNext]_vars

(* --------------------------- MethodVisualizer -------------------------- *)

\* The component of src/components/MethodVisualizer.tsx, mounted.  Its state
\* is held in loc: the committed playing and step, the pending playback
\* timeout (timer: the iterations.length its callback closed over), and the
\* effects of the last commit that have not run yet.  iters is
\* data.iterations.  A click is a discrete event: its handler, the render
\* and the effects of that render run in one step.  The effects of a render
\* caused by a timeout or by new props run later (FlushEffects), and before
\* any other render.  last names the step taken last, and quiet says that
\* the user has stopped interacting.

\* the longest iterations array the component is given
MaxFrames == 3

\* playerRef.current = null
NoTimer == -1

Visualizer == "MethodVisualizer"

\* data.iterations of a result with n iterations
Frames(n) == [i \in 1..n |-> [iter |-> i]]

\* Math.min and Math.max on the step counter
StepMin(p, q) == IF p < q THEN p ELSE q

StepMax(p, q) == IF p > q THEN p ELSE q

\* a faulty variant of AnimationEffect: the timeout is left pending when the
\* effect runs again
AnimationEffect_noCleanup(c, n) ==
  IF ~c.pendingAnimation THEN [timer |-> c.timer, stop |-> FALSE]
  ELSE IF ~c.playing THEN [timer |-> c.timer, stop |-> FALSE]
  ELSE IF c.step >= n THEN [timer |-> c.timer, stop |-> TRUE]
  ELSE [timer |-> n, stop |-> FALSE]

\* the animation effect (lines 94-118) of a commit with state c and n
\* iterations: the cleanup of its last run clears the timeout, then it does
\* nothing when not playing, asks for setPlaying(false) at the end, or sets a
\* timeout whose callback closes over n
AnimationEffect(c, n) ==
  IF ~c.pendingAnimation THEN [timer |-> c.timer, stop |-> FALSE]
  ELSE IF ~c.playing THEN [timer |-> NoTimer, stop |-> FALSE]
  ELSE IF c.step >= n THEN [timer |-> NoTimer, stop |-> TRUE]
  ELSE [timer |-> n, stop |-> FALSE]

\* a faulty variant of ResetEffect: the step counter is left as it was
ResetEffect_keepStep(c) == [stop |-> c.pendingReset, rewind |-> FALSE]

\* the reset effect (lines 121-126): setPlaying(false) and setStep(0)
ResetEffect(c) == [stop |-> c.pendingReset, rewind |-> c.pendingReset]

\* the pending effects of the commit with state c, run in the order they are
\* declared: the timeout left, and the state updates they asked for
FlushPassive(c, n) ==
  LET anim  == AnimationEffect(c, n)
      reset == ResetEffect(c)
  IN  [timer |-> anim.timer, stop |-> anim.stop \/ reset.stop,
       rewind |-> reset.rewind]

\* the commit of a render: from the commit c with n iterations, after the
\* pending effects fx ran, to playing p and step s (the updates of fx applied
\* after them) with m iterations; the animation effect is due when one of its
\* dependencies changed, the reset effect when the props did
Commit(c, n, m, p, s, fx, propsChanged, name) ==
  LET p1 == IF fx.stop THEN FALSE ELSE p
      s1 == IF fx.rewind THEN 0 ELSE s
  IN  [playing |-> p1, step |-> s1, timer |-> fx.timer,
       pendingAnimation |-> (p1 # c.playing \/ s1 # c.step \/ m # n),
       pendingReset |-> propsChanged,
       last |-> name, quiet |-> c.quiet]

\* a click whose handler asks for playing p and step s: the pending effects
\* run, the render commits, and the effects of that commit run at once; an
\* update they ask for is rendered, and the effects of that render are left
\* pending
Discrete(c, n, p, s, name) ==
  LET c1  == Commit(c, n, n, p, s, FlushPassive(c, n), FALSE, name)
      fx1 == FlushPassive(c1, n)
      c2  == [c1 EXCEPT !.pendingAnimation = FALSE]
  IN  Commit(c2, n, n, c1.playing, c1.step, fx1, FALSE, name)

\* the component after it mounted with data = null
VisInit ==
  /\ pc = "mounted"
  /\ args = [method |-> Visualizer]
  /\ loc = [playing |-> FALSE, step |-> 0, timer |-> NoTimer,
            pendingAnimation |-> FALSE, pendingReset |-> FALSE,
            last |-> "mount", quiet |-> FALSE]
  /\ iters = <<>>
  /\ converged = FALSE
  /\ steps = <<>>
  /\ thrown = ""
  /\ result = <<>>
  /\ sched = NoOthers

\* the playback timeout fires: setStep((s) => Math.min(s + 1, iterations.length))
Tick ==
  /\ pc = "mounted" /\ loc.timer # NoTimer
  /\ LET n     == Len(iters)
         fired == [loc EXCEPT !.timer = NoTimer]
         s     == StepMin(loc.step + 1, loc.timer)
     IN  loc' = IF s = loc.step
                THEN [fired EXCEPT !.last = "tick"]
                ELSE Commit(loc, n, n, loc.playing, s,
                            FlushPassive(fired, n), FALSE, "tick")
  /\ UNCHANGED <<pc, args, iters, converged, steps, thrown, result, sched>>

\* the effects of the last commit run; the updates they ask for are rendered
FlushEffects ==
  /\ pc = "mounted" /\ (loc.pendingAnimation \/ loc.pendingReset)
  /\ LET n  == Len(iters)
         fx == FlushPassive(loc, n)
         c  == [loc EXCEPT !.pendingAnimation = FALSE, !.pendingReset = FALSE]
     IN  loc' = Commit(c, n, n, loc.playing, loc.step, fx, FALSE,
                       IF loc.pendingReset THEN "resetEffect" ELSE "effects")
  /\ UNCHANGED <<pc, args, iters, converged, steps, thrown, result, sched>>

\* handlePlayPause (lines 142-149)
HandlePlayPause ==
  /\ pc = "mounted" /\ ~loc.quiet
  /\ LET n == Len(iters)
     IN  loc' = IF loc.playing
                THEN Discrete(loc, n, FALSE, loc.step, "pause")
                ELSE Discrete(loc, n, TRUE,
                              IF loc.step >= n THEN 0 ELSE loc.step, "play")
  /\ UNCHANGED <<pc, args, iters, converged, steps, thrown, result, sched>>

\* handleStepForward (lines 151-154); its button is disabled at the end
HandleStepForward ==
  /\ pc = "mounted" /\ ~loc.quiet
  /\ loc.step < Len(iters)
  /\ loc' = Discrete(loc, Len(iters), FALSE,
                     StepMin(loc.step + 1, Len(iters)), "stepForward")
  /\ UNCHANGED <<pc, args, iters, converged, steps, thrown, result, sched>>

\* handleStepBack (lines 156-159); its button is disabled at step 0
HandleStepBack ==
  /\ pc = "mounted" /\ ~loc.quiet
  /\ loc.step # 0
  /\ loc' = Discrete(loc, Len(iters), FALSE, StepMax(loc.step - 1, 0), "stepBack")
  /\ UNCHANGED <<pc, args, iters, converged, steps, thrown, result, sched>>

\* handleReset (lines 161-164)
HandleReset ==
  /\ pc = "mounted" /\ ~loc.quiet
  /\ loc' = Discrete(loc, Len(iters), FALSE, 0, "reset")
  /\ UNCHANGED <<pc, args, iters, converged, steps, thrown, result, sched>>

\* the page passes another result (or null), with m iterations, or another
\* method: the pending effects run and the component renders with the new
\* props
Receive(m) ==
  /\ pc = "mounted" /\ ~loc.quiet
  /\ iters' = Frames(m)
  /\ loc' = Commit(loc, Len(iters), m, loc.playing, loc.step,
                   FlushPassive(loc, Len(iters)), TRUE, "props")
  /\ UNCHANGED <<pc, args, converged, steps, thrown, result, sched>>

\* from here on no handler is invoked and the props stay as they are
Leave ==
  /\ pc = "mounted" /\ ~loc.quiet
  /\ loc' = [loc EXCEPT !.quiet = TRUE, !.last = "leave"]
  /\ UNCHANGED <<pc, args, iters, converged, steps, thrown, result, sched>>

VisNext ==
  \/ Tick
  \/ FlushEffects
  \/ HandlePlayPause
  \/ HandleStepForward
  \/ HandleStepBack
  \/ HandleReset
  \/ \E m \in 0..MaxFrames : Receive(m)
  \/ Leave

VisSpec == VisInit /\ [][VisNext]_vars

\* a timeout that is set fires, and effects that are due run
Scheduled == Tick \/ FlushEffects

SchedulerFairness ==
  \/ []<>(loc.timer = NoTimer /\ ~loc.pendingAnimation /\ ~loc.pendingReset)
  \/ []<><<Scheduled>>_vars

PlaySpec == VisSpec /\ SchedulerFairness

(* ------------------------------ the page ------------------------------ *)

\* The component Home of src/app/not-found.tsx.  loc holds its state: the
\* method selected, the inputs typed (one of InputSets), isRunning, the
\* deferred callback of run that has not fired yet (pending: the method and
\* the inputs its closure captured) and the result passed to the visualizer
\* (shown).  A result is kept as the method and the inputs it was computed
\* for and whether it is the error result of the catch branch; stale marks
\* the callback of a run, and its result, started before the method was last
\* changed.

\* the keys of METHODS
PageMethods == {"bisection", "false-position", "fixed-point"}

\* the contents of the input fields: the initial ones and edited ones
InputSets == {"initial", "edited"}

\* no callback of run is waiting
NoRun == [method |-> "none"]

\* result = null
NoResult == [by |-> "none"]

PageInit ==
  /\ pc = "page"
  /\ args = [method |-> "Home"]
  /\ loc = [method |-> "bisection", inputs |-> "initial", isRunning |-> FALSE,
            pending |-> NoRun, shown |-> NoResult]
  /\ iters = <<>>
  /\ converged = FALSE
  /\ steps = <<>>
  /\ thrown = ""
  /\ result = <<>>
  /\ sched = NoOthers

\* run (lines 207-228) up to setTimeout: the Run button is disabled while
\* isRunning
run ==
  /\ pc = "page" /\ ~loc.isRunning
  /\ loc' = [loc EXCEPT !.isRunning = TRUE,
                        !.pending = [method |-> loc.method, inputs |-> loc.inputs,
                                     stale |-> FALSE]]
  /\ UNCHANGED <<pc, args, iters, converged, steps, thrown, result, sched>>

\* the callback of run fires (lines 210-226): the solver of the captured
\* method returns, or it throws and the catch branch builds the error result
runCallback ==
  /\ pc = "page" /\ loc.pending # NoRun
  /\ \E outcome \in {"returned", "thrown"} :
       loc' = [loc EXCEPT !.shown = [by |-> loc.pending.method,
                                     inputs |-> loc.pending.inputs,
                                     error |-> (outcome = "thrown"),
                                     stale |-> loc.pending.stale],
                          !.isRunning = FALSE,
                          !.pending = NoRun]
  /\ UNCHANGED <<pc, args, iters, converged, steps, thrown, result, sched>>

\* reset (line 230); its button is rendered when there is a result
reset ==
  /\ pc = "page" /\ loc.shown # NoResult
  /\ loc' = [loc EXCEPT !.shown = NoResult]
  /\ UNCHANGED <<pc, args, iters, converged, steps, thrown, result, sched>>

\* handleMethodChange (line 231): another method is selected
handleMethodChange(val) ==
  /\ pc = "page" /\ val # loc.method
  /\ loc' = [loc EXCEPT !.method = val,
                        !.shown = NoResult,
                        !.pending = IF loc.pending = NoRun THEN NoRun
                                    ELSE [loc.pending EXCEPT !.stale = TRUE]]
  /\ UNCHANGED <<pc, args, iters, converged, steps, thrown, result, sched>>

\* an input field is edited (setExpr, setA, ... of lines 196-203)
editInputs(val) ==
  /\ pc = "page" /\ val # loc.inputs
  /\ loc' = [loc EXCEPT !.inputs = val]
  /\ UNCHANGED <<pc, args, iters, converged, steps, thrown, result, sched>>

PageNext ==
  \/ run
  \/ runCallback
  \/ reset
  \/ \E val \in PageMethods : handleMethodChange(val)
  \/ \E val \in InputSets : editInputs(val)

PageSpec == PageInit /\ [][PageNext]_vars

(* ------------------------------ claims -------------------------------- *)

Bracketing == {"bisection", "falsePosition"}

OpenMethods == {"fixedPoint", "newton", "secant"}

Last(seq) == seq[Len(seq)]

\* C1: every result a solver returns has at most maxIter iteration records,
\* and the record at (1-based) position i carries iter = i.
C1_IterContiguous ==
  pc = "returned" =>
    /\ Len(result.iterations) <= args.maxIter
    /\ \A i \in 1..Len(result.iterations) : result.iterations[i].iter = i

\* a result of each of several solvers with as many records as maxIter allows
C1_Witness ==
  /\ pc = "returned" /\ args.method = "secant"
  /\ args.maxIter = MaxIter /\ Len(result.iterations) = MaxIter

\* C2: a bracketing solver throws the invalid-bracket error whenever both
\* endpoint values are finite with a positive product, never when the product
\* is <= 0, and then no iteration has been recorded and nothing is returned.
C2_InvalidBracket ==
  args.method \in Bracketing =>
    LET fa == evalf(args.expr, args.a0)
        fb == evalf(args.expr, args.b0)
    IN  /\ (IsFinite(fa) /\ IsFinite(fb) /\ Greater(Mul(fa, fb), Zero)) =>
              /\ pc = "thrown" /\ thrown = InvalidBracket
              /\ iters = <<>> /\ result = <<>>
        /\ LessEq(Mul(fa, fb), Zero) => thrown # InvalidBracket

\* solveBisection("x", 1, 2, {}) has thrown the invalid-bracket error
C2_Witness ==
  /\ args.method = "bisection" /\ args.expr = "x"
  /\ args.a0 = Num(1) /\ args.b0 = Num(2)
  /\ pc = "thrown" /\ thrown = InvalidBracket

\* C3: a bracketing solver throws the non-finite-evaluation error whenever
\* the evaluation at a0 or at b0 is not finite, whatever the other endpoint
\* gives; no iteration has been recorded and nothing is returned.
C3_NonFiniteEndpoint ==
  args.method \in Bracketing =>
    ((~IsFinite(Evaluate(args.expr, args.a0)) \/ ~IsFinite(Evaluate(args.expr, args.b0))) =>
        /\ pc = "thrown" /\ thrown = NonFiniteEndpoint
        /\ iters = <<>> /\ result = <<>>)

\* only f(b0) is not finite, f(a0) is positive: the call has thrown
C3_Witness ==
  /\ args.method = "falsePosition" /\ args.expr = "1/x"
  /\ args.a0 = Num(1) /\ args.b0 = Num(0)
  /\ pc = "thrown" /\ thrown = NonFiniteEndpoint

\* C4: in a bracketing solver a non-finite evaluation of the candidate inside
\* the loop does not fail the call: the loop ends and a result is returned
\* with converged = false and every record gathered so far.
C4_NonFiniteCandidateReturns ==
  (args.method \in Bracketing /\ Len(steps) > 0 /\ ~IsFinite(Last(steps).fcand)) =>
    /\ pc # "thrown"
    /\ pc = "returned" =>
         /\ ~result.summary.converged
         /\ result.iterations = iters

\* C5: in an open method a non-finite evaluation inside the loop does not
\* fail the call: no open-method call ends with one of the non-finite errors.
C5_NonFiniteInLoopReturns ==
  args.method \in OpenMethods =>
    ~(pc = "thrown" /\
      thrown \in {NonFiniteG, NonFiniteNewton, NonFiniteSecant, NonFiniteNext})

C7_BisectionCriterion(s) ==
  Less(NAbs(s.fcand), args.tol) \/ Less(Mul(Rat(1, 2), s.width), args.tol)

\* the convergence criterion of False Position, on the values of one iteration
C7_FalsePositionCriterion(s) == Less(NAbs(s.fcand), args.tol)

\* C7: a result of solveBisection has converged = true exactly when its last
\* iteration has |f(mid)| < tol or width/2 < tol, a result of
\* solveFalsePosition exactly when its last iteration has |f(c)| < tol, and
\* no earlier iteration of the result meets the criterion.
C7_BracketConvergence ==
  /\ (pc = "returned" /\ args.method = "bisection") =>
       /\ result.summary.converged <=>
            (Len(steps) > 0 /\ C7_BisectionCriterion(Last(steps)))
       /\ \A i \in 1..(Len(steps) - 1) : ~C7_BisectionCriterion(steps[i])
  /\ (pc = "returned" /\ args.method = "falsePosition") =>
       /\ result.summary.converged <=>
            (Len(steps) > 0 /\ C7_FalsePositionCriterion(Last(steps)))
       /\ \A i \in 1..(Len(steps) - 1) : ~C7_FalsePositionCriterion(steps[i])

\* a bisection that converged at its second iteration on the width alone
C7_Witness ==
  /\ pc = "returned" /\ args.method = "bisection"
  /\ result.summary.converged /\ Len(steps) = 2
  /\ ~Less(NAbs(steps[2].fcand), args.tol)

\* the convergence criterion of Newton-Raphson and Secant
C8_OpenCriterion(s) == Less(s.diff, args.tol) \/ Less(s.error, args.tol)

\* the convergence criterion of Fixed-Point iteration
C8_FixedPointCriterion(s) == Less(s.diff, args.tol)

\* C8: a result of solveNewton or solveSecant has converged = true exactly
\* when its last iteration has diff < tol or error < tol, a result of
\* solveFixedPoint exactly when its last iteration has diff < tol, and no
\* earlier iteration of the result meets the criterion.
C8_OpenConvergence ==
  /\ (pc = "returned" /\ args.method \in {"newton", "secant"}) =>
       /\ result.summary.converged <=>
            (Len(steps) > 0 /\ C8_OpenCriterion(Last(steps)))
       /\ \A i \in 1..(Len(steps) - 1) : ~C8_OpenCriterion(steps[i])
       /\ \A i \in 1..Len(steps) :
            /\ steps[i].diff = NAbs(Sub(steps[i].xnext, steps[i].x))
            /\ steps[i].error = NAbs(evalf(args.expr, steps[i].x))
  /\ (pc = "returned" /\ args.method = "fixedPoint") =>
       /\ result.summary.converged <=>
            (Len(steps) > 0 /\ C8_FixedPointCriterion(Last(steps)))
       /\ \A i \in 1..(Len(steps) - 1) : ~C8_FixedPointCriterion(steps[i])
       /\ \A i \in 1..Len(steps) :
            steps[i].diff = NAbs(Sub(evalf(args.gexpr, steps[i].x), steps[i].x))

\* a Newton result that converged at its second iteration on |f(x)| alone
C8_Witness ==
  /\ pc = "returned" /\ args.method = "newton"
  /\ result.summary.converged /\ Len(steps) = 2
  /\ ~Less(steps[2].diff, args.tol) /\ Less(steps[2].error, args.tol)

DivergenceErrors == {DivergingFixedPoint, DivergingNewton, DivergingSecant}

\* an open method has just computed a finite xNext of magnitude above 1e10
C9_HugeIterate ==
  /\ args.method \in OpenMethods /\ Len(steps) > 0
  /\ IsFinite(Last(steps).xnext)
  /\ Greater(NAbs(Last(steps).xnext), DivergenceLimit)

\* C9 as stated: whenever an open method computes a finite xNext with
\* |xNext| > 1e10 the call fails with the divergence error, and no returned
\* result has a root of magnitude above 1e10.
C9_Original ==
  /\ C9_HugeIterate => (pc = "thrown" /\ thrown \in DivergenceErrors)
  /\ (pc = "returned" /\ args.method \in OpenMethods) =>
       ~Greater(NAbs(result.summary.root), DivergenceLimit)

\* C9 amended: the divergence error is thrown whenever an open method
\* computes a finite xNext with |xNext| > 1e10 in an iteration that does not
\* meet the convergence criterion (which is tested first); a returned result
\* with |root| > 1e10 converged at its last iteration or ran no iteration.
C9_DivergenceUnlessConverged ==
  /\ (C9_HugeIterate /\
      ~(IF args.method = "fixedPoint" THEN C8_FixedPointCriterion(Last(steps))
        ELSE C8_OpenCriterion(Last(steps)))) =>
       (pc = "thrown" /\ thrown \in DivergenceErrors /\ result = <<>>)
  /\ (pc = "returned" /\ args.method \in OpenMethods /\
      Greater(NAbs(result.summary.root), DivergenceLimit)) =>
       (result.summary.converged \/ Len(result.iterations) = 0)

\* a fixed-point call has thrown the divergence error at its second iteration
C9_Witness ==
  /\ C9_HugeIterate /\ args.method = "fixedPoint" /\ Len(steps) = 2
  /\ pc = "thrown" /\ thrown = DivergingFixedPoint

\* solveNewton is about to run an iteration in which f(x) and f'(x) are
\* finite and |f'(x)| < 1e-12
C10_DegenerateTangent ==
  /\ pc = "newton" /\ ~converged /\ loc.k < args.maxIter
  /\ IsFinite(evalf(args.expr, loc.x))
  /\ IsFinite(evalf(loc.dExpr, loc.x))
  /\ Less(NAbs(evalf(loc.dExpr, loc.x)), ZeroThreshold)

\* C10: an iteration of solveNewton in which f(x) and f'(x) are finite and
\* |f'(x)| < 1e-12 throws the zero-derivative error without recording the
\* iteration, whatever f(x) is; every recorded iteration (one whose xNext was
\* computed) divided by a derivative of magnitude at least 1e-12.
C10_ZeroDerivative ==
  /\ [][C10_DegenerateTangent =>
          /\ pc' = "thrown" /\ thrown' = ZeroDerivative
          /\ iters' = iters /\ steps' = steps /\ result' = <<>>]_vars
  /\ [](args.method = "newton" =>
          \A i \in 1..Len(steps) :
            /\ steps[i].dfx = evalf(loc.dExpr, steps[i].x)
            /\ ~Less(NAbs(steps[i].dfx), ZeroThreshold))

\* the zero-derivative error thrown at a point where the derivative is tiny
\* but not zero and |f(x)| is already below tol
C10_Witness ==
  /\ args.method = "newton" /\ pc = "thrown" /\ thrown = ZeroDerivative
  /\ evalf(loc.dExpr, loc.x) # Zero
  /\ Less(NAbs(evalf(args.expr, loc.x)), args.tol)
  /\ iters = <<>>

\* solveSecant is about to run an iteration in which f(x) and fPrev are
\* finite and |f(x) - fPrev| < 1e-12
C11_DegenerateSecant ==
  /\ pc = "secant" /\ ~converged /\ loc.k < args.maxIter
  /\ IsFinite(loc.fx) /\ IsFinite(loc.fprev)
  /\ Less(NAbs(Sub(loc.fx, loc.fprev)), ZeroThreshold)

\* C11: an iteration of solveSecant in which f(x) and fPrev are finite and
\* |f(x) - fPrev| < 1e-12 (the first one included, when f(x0) = f(x1)) throws
\* the zero-denominator error without recording the iteration; every recorded
\* iteration (one whose xNext was computed) divided by a finite denominator
\* f(x) - fPrev of magnitude at least 1e-12.
C11_ZeroDenominator ==
  /\ [][C11_DegenerateSecant =>
          /\ pc' = "thrown" /\ thrown' = ZeroDenominator
          /\ iters' = iters /\ steps' = steps /\ result' = <<>>]_vars
  /\ [](args.method = "secant" =>
          \A i \in 1..Len(steps) :
            LET den == Sub(steps[i].fx, steps[i].fprev)
            IN  /\ steps[i].fx = evalf(args.expr, steps[i].x)
                /\ steps[i].fprev = evalf(args.expr, steps[i].xprev)
                /\ IsFinite(den)
                /\ ~Less(NAbs(den), ZeroThreshold))

\* the zero-denominator error thrown in the first iteration on two distinct
\* guesses whose values differ by less than 1e-12 but are not equal
C11_Witness ==
  /\ args.method = "secant" /\ pc = "thrown" /\ thrown = ZeroDenominator
  /\ args.x0 # args.x1
  /\ Sub(loc.fx, loc.fprev) # Zero
  /\ iters = <<>>

\* the zero-denominator error thrown in the second iteration, where the new
\* iterate has the value of the one before it
C11_LaterWitness ==
  /\ args.method = "secant" /\ pc = "thrown" /\ thrown = ZeroDenominator
  /\ Len(iters) = 1 /\ loc.k = 1 /\ loc.fx = loc.fprev

\* the errors the open methods throw from inside the loop on a zero
\* derivative, a zero denominator or a diverging iterate
MidLoopErrors == {ZeroDerivative, ZeroDenominator} \cup DivergenceErrors

\* C12: when an open method throws the zero-derivative, zero-denominator or
\* divergence error after at least one iteration was recorded, the failure
\* the caller receives carries the iteration records pushed up to that point.
C12_FailureCarriesHistory ==
  (/\ args.method \in OpenMethods /\ pc = "thrown"
   /\ thrown \in MidLoopErrors /\ iters # <<>>) =>
    LET failure == ErrorObject(thrown)
    IN  /\ "iterations" \in DOMAIN failure
        /\ failure.iterations = iters

\* C13: in every result returned by a call with maxIter >= 1, summary.root is
\* the unrounded value of the last candidate computed (the last mid of
\* Bisection, the last c of False Position, the last xNext of the open
\* methods), and summary.iterations is the number of records in iterations.
C13_RootIsLastIterate ==
  (pc = "returned" /\ args.maxIter >= 1) =>
    /\ Len(steps) >= 1
    /\ result.summary.root =
         (IF args.method \in Bracketing THEN Last(steps).cand
          ELSE Last(steps).xnext)
    /\ result.iterations = iters
    /\ result.summary.iterations = Len(result.iterations)

\* solveNewton("x^2 - 2", 1, {maxIter: 3}) has returned unconverged with the
\* root 577/408, which ten decimals cannot hold
C13_Witness ==
  /\ pc = "returned" /\ args.method = "newton" /\ args.expr = "x^2 - 2"
  /\ ~result.summary.converged /\ Len(result.iterations) = 3
  /\ result.summary.root = Rat(577, 408)

\* the range a solver plots and samples, from the arguments of the call
C14_ExpectedRange ==
  CASE args.method \in Bracketing ->
         <<Sub(args.a0, Num(1)), Add(args.b0, Num(1))>>
    [] args.method \in {"fixedPoint", "newton"} ->
         <<Sub(args.x0, Num(5)), Add(args.x0, Num(5))>>
    [] args.method = "secant" ->
         <<Sub(IF Less(args.x1, args.x0) THEN args.x1 ELSE args.x0, Num(5)),
           Add(IF Less(args.x0, args.x1) THEN args.x1 ELSE args.x0, Num(5))>>

\* C14: in every returned result summary.plotRange, and the range the summary's
\* samples were taken over, is [a0 - 1, b0 + 1] for Bisection and False
\* Position, [x0 - 5, x0 + 5] for Fixed-Point and Newton and
\* [min(x0, x1) - 5, max(x0, x1) + 5] for Secant, whatever the loop did.
C14_PlotRange ==
  pc = "returned" =>
    /\ result.summary.plotRange = C14_ExpectedRange
    /\ result.summary.sampled.from = C14_ExpectedRange[1]
    /\ result.summary.sampled.to = C14_ExpectedRange[2]
    /\ result.summary.sampled.expr =
         (IF args.method = "fixedPoint" THEN args.gexpr ELSE args.expr)
    /\ LET call == result.summary.sampled
       IN  /\ call.n >= 2
           /\ SampleX(call.from, call.to, call.n, 0) = C14_ExpectedRange[1]
           /\ SampleX(call.from, call.to, call.n, call.n - 1) = C14_ExpectedRange[2]

\* solveBisection("x", -1, 2, ...) has returned after its loop moved both ends
\* of the interval: the plot range is [-2, 3], and the 500 samples of the
\* summary are those of "x" from -2 to 3
C14_Witness ==
  /\ pc = "returned" /\ args.method = "bisection" /\ args.expr = "x"
  /\ args.a0 = Num(-1) /\ args.b0 = Num(2)
  /\ loc.a # args.a0 /\ loc.b # args.b0
  /\ result.summary.plotRange = <<Num(-2), Num(3)>>
  /\ result.summary.sampled =
       [expr |-> "x", from |-> Num(-2), to |-> Num(3), n |-> 500]

\* sampleFunction has returned
Sampled_Returned == pc = "returned" /\ args.method = "sampleFunction"

C16_Clamped ==
  Sampled_Returned =>
    \A i \in 1..Len(result.samples) :
      LET y   == result.samples[i].y
          val == evalf(args.expr, result.samples[i].x)
      IN  /\ IsNaN(y) \/ (IsFinite(y) /\ LessEq(NAbs(y), Norm(15625, 1, 6)))
          /\ (IsFinite(val) /\ Greater(val, Norm(15625, 1, 6))) =>
                y = Norm(15625, 1, 6)
          /\ (IsFinite(val) /\ Less(val, Norm(-15625, 1, 6))) =>
                y = Norm(-15625, 1, 6)
          /\ (IsFinite(val) /\ LessEq(NAbs(val), Norm(15625, 1, 6))) =>
                y = val

\* sampleFunction("2^20 * x", -1, 2, 4): -2^20, 2^20 and 2^21 are recorded as
\* -1e6, 1e6 and 1e6, the value 0 at x = 0 as it is
C16_Witness ==
  /\ Sampled_Returned /\ args.expr = "2^20 * x" /\ args.n = 4
  /\ args.from = Num(-1) /\ args.to = Num(2)
  /\ result.samples[1].y = Norm(-15625, 1, 6)
  /\ result.samples[2].y = Zero
  /\ result.samples[3].y = Norm(15625, 1, 6)
  /\ result.samples[4].y = Norm(15625, 1, 6)

\* the finite y values among the samples returned
C17_FiniteYs ==
  {result.samples[i].y : i \in {j \in 1..Len(result.samples) :
                                   IsFinite(result.samples[j].y)}}

\* (m, M): the least and greatest finite sample value, (-1, 1) when there is
\* none, (v - 1, v + 1) when all are v
C17_Extent ==
  IF C17_FiniteYs = {} THEN <<Num(-1), Num(1)>>
  ELSE LET m == CHOOSE v \in C17_FiniteYs : \A w \in C17_FiniteYs : LessEq(v, w)
           M == CHOOSE v \in C17_FiniteYs : \A w \in C17_FiniteYs : LessEq(w, v)
       IN  IF m = M THEN <<Sub(m, Num(1)), Add(m, Num(1))>> ELSE <<m, M>>

\* C17: sampleFunction returns yMin = m - p * (M - m) and yMax = M + p * (M - m)
\* for the fixed fraction p = 0.15 (between 0.10 and 0.15), (m, M) being the
\* least and greatest finite sample value as recorded, (-1, 1) when no sample
\* is finite and (v - 1, v + 1) when every finite sample is v.
C17_PaddedRange ==
  Sampled_Returned =>
    LET m == C17_Extent[1]
        M == C17_Extent[2]
        p == Rat(15, 100)
    IN  /\ LessEq(Rat(10, 100), p) /\ LessEq(p, Rat(15, 100))
        /\ result.yMin = Sub(m, Mul(p, Sub(M, m)))
        /\ result.yMax = Add(M, Mul(p, Sub(M, m)))

\* sampleFunction("1/x", -1, 2, 4): the NaN at x = 0 apart, the values run
\* from -1 to 1, and the bounds are -1.3 and 1.3
C17_Witness ==
  /\ Sampled_Returned /\ args.expr = "1/x" /\ args.n = 4
  /\ args.from = Num(-1) /\ args.to = Num(2)
  /\ \E i \in 1..4 : IsNaN(result.samples[i].y)
  /\ C17_Extent = <<Num(-1), Num(1)>>
  /\ result.yMin = Rat(-13, 10) /\ result.yMax = Rat(13, 10)

\* C18: whatever the formula, the range (from = to included), n >= 0 and the
\* mix of finite and non-finite values, the bounds sampleFunction returns are
\* finite with yMin < yMax; sampleFunction("1/x", -1, 1, 501) has a sample
\* whose y is not finite.
C18_BoundsOrdered ==
  Sampled_Returned =>
    /\ IsFinite(result.yMin) /\ IsFinite(result.yMax)
    /\ Less(result.yMin, result.yMax)
    /\ (/\ args.expr = "1/x" /\ args.n = 501
        /\ args.from = Num(-1) /\ args.to = Num(1)) =>
         \E i \in 1..Len(result.samples) : ~IsFinite(result.samples[i].y)

\* sampleFunction("1/x", -1, 1, 501) has returned: 501 samples, the one at
\* x = 0 not finite, and yMin < yMax
C18_Witness ==
  /\ Sampled_Returned /\ args.expr = "1/x" /\ args.n = 501
  /\ Len(result.samples) = 501
  /\ result.samples[251].x = Zero /\ IsNaN(result.samples[251].y)
  /\ Less(result.yMin, result.yMax)

\* sampleFunction over a range that is a point, every value the same
C18_FlatWitness ==
  /\ Sampled_Returned /\ args.from = args.to /\ args.n >= 2
  /\ C17_FiniteYs # {}
  /\ Less(result.yMin, result.yMax)

\* C19: solveFixedPoint called with maxIter >= 1 at a fixed point of g
\* (g(x0) = x0) never throws and never records a second iteration, and its
\* result has exactly one record, converged = true and root = x0, whatever
\* the tolerance.
C19_StartAtFixedPoint ==
  (/\ args.method = "fixedPoint" /\ args.maxIter >= 1
   /\ evalf(args.gexpr, args.x0) = args.x0) =>
    /\ pc # "thrown"
    /\ Len(iters) <= 1
    /\ pc = "returned" =>
         /\ Len(result.iterations) = 1
         /\ result.iterations[1].iter = 1
         /\ result.iterations[1].diff = formatIterationValue(Zero)
         /\ result.summary.converged
         /\ result.summary.iterations = 1
         /\ result.summary.root = args.x0

\* solveFixedPoint("1/x", -1, {tol: 1e-6, maxIter: 3}) has returned
C19_Witness ==
  /\ pc = "returned" /\ args.method = "fixedPoint"
  /\ args.gexpr = "1/x" /\ args.x0 = Num(-1)
  /\ args.tol = DefaultTol /\ args.maxIter = 3
  /\ Len(result.iterations) = 1 /\ result.summary.converged

\* the call has ended
Ended == pc \in {"returned", "thrown"}

\* C20: every call of a solver ends, by an error or by a return: a pass of
\* the loop is entered only with k < maxIter and either ends the call, sets
\* converged (the next step is the return) or adds one to k, so that no call
\* makes more than maxIter passes or records more than maxIter iterations.
C20_Terminates ==
  /\ [][(Running /\ pc' # "returned") =>
          /\ loc.k < args.maxIter /\ ~converged
          /\ Len(steps') <= Len(steps) + 1
          /\ \/ pc' = "thrown"
             \/ pc' = pc /\ converged' /\ loc'.k = loc.k
             \/ pc' = pc /\ ~converged' /\ loc'.k = loc.k + 1]_vars
  /\ [][(Running /\ pc' = "returned") => (converged \/ loc.k >= args.maxIter)]_vars
  /\ [](Running => (loc.k >= 0 /\ loc.k <= args.maxIter /\ loc.k <= Len(steps)))
  /\ [](args.method # "none" => Len(steps) <= args.maxIter)
  /\ (Running ~> Ended)

\* a call that has used every pass maxIter allows and has returned unconverged
C20_Witness ==
  /\ pc = "returned" /\ args.method = "falsePosition"
  /\ args.maxIter = MaxIter /\ loc.k = MaxIter
  /\ Len(steps) = MaxIter /\ ~converged

\* a call has ended, by a return or by an error
FrameEnded(f) == f.pc \in {"returned", "thrown"}

\* C21: with the steps of several solver calls interleaved in any order,
\* any two calls with the same arguments that have ended have ended the same
\* way, with the same result (iteration records, summary) or the same error,
\* whether a call ran from its start to its end alone or was set aside for
\* steps of other calls; and a result holds the records of its own call only.
C21_CallsIndependent ==
  /\ \A f \in AllFrames, g \in AllFrames :
       (FrameEnded(f) /\ FrameEnded(g) /\ f.args = g.args) =>
         /\ f.pc = g.pc
         /\ f.result = g.result
         /\ f.thrown = g.thrown
         /\ f.iters = g.iters
  /\ \A f \in AllFrames :
       f.pc = "returned" =>
         /\ Len(f.result.iterations) <= f.args.maxIter
         /\ \A i \in 1..Len(f.result.iterations) :
              f.result.iterations[i].iter = i

\* two calls of solveBisection with the same arguments have returned the same
\* two records, one of them run alone and one set aside on its way for a call
\* of another solver, which threw
C21_Witness ==
  \E f \in AllFrames, g \in AllFrames, h \in AllFrames :
    /\ f.pc = "returned" /\ g.pc = "returned" /\ f.args = g.args
    /\ f.args.method = "bisection" /\ Len(f.result.iterations) = 2
    /\ ~f.preempted /\ g.preempted
    /\ h.pc = "thrown" /\ h.args.method = "secant" /\ h.preempted
    /\ Len(h.iters) = 1

\* k: the least positive integer with |b0 - a0| / 2^k < tol
C22_Halvings ==
  LET width == NAbs(Sub(args.b0, args.a0))
      Enough(k) == Less(Div(width, Pow2(k)), args.tol)
  IN  CHOOSE k \in 1..64 : Enough(k) /\ \A j \in 1..(k - 1) : ~Enough(j)

C22_ShortWitness ==
  /\ pc = "returned" /\ args.method = "bisection"
  /\ args.maxIter = C22_Halvings - 1 /\ args.maxIter = MaxIter
  /\ ~result.summary.converged

\* a bracketing solver has just updated its interval: the last pass recorded
\* did not converge and did not throw
C23_Updated ==
  /\ pc \in Bracketing /\ ~converged
  /\ Len(steps) >= 1 /\ loc.k = Len(steps)

\* C23: after a pass of solveBisection or solveFalsePosition that did not
\* converge, with the candidate p: if f(a) * f(p) <= 0 then b and f(b) are p
\* and f(p) and a, f(a) are as before, otherwise a and f(a) are p and f(p) and
\* b, f(b) are as before; a product of exactly zero replaces b.
C23_UpdateRule ==
  C23_Updated =>
    LET s == Last(steps)
    IN  IF LessEq(Mul(s.fa, s.fcand), Zero)
        THEN /\ loc.b = s.cand /\ loc.fb = s.fcand
             /\ loc.a = s.a /\ loc.fa = s.fa
        ELSE /\ loc.a = s.cand /\ loc.fa = s.fcand
             /\ loc.b = s.b /\ loc.fb = s.fb

\* a bracketing solver is at the head of its loop, about to start a pass or to
\* leave the loop at k = maxIter
C24_LoopHead == pc \in Bracketing /\ ~converged

C24_FalsePositionWitness ==
  /\ C24_LoopHead /\ pc = "falsePosition" /\ loc.k >= 1
  /\ loc.a # args.a0

C24_ZeroEndpointWitness ==
  /\ C24_LoopHead /\ pc = "bisection" /\ loc.k >= 1
  /\ loc.fa = Zero /\ loc.b # args.b0

\* ten decimals cannot hold the value: its rounded copy differs from it
C25_Lossy(v) ==
  /\ IsFinite(v)
  /\ \/ v[3] < -10
     \/ v[2] \notin {1, 5, 25, 125, 625, 3125, 15625, 78125, 390625,
                     1953125, 9765625}

\* the records are the rounded copies of the values the passes worked with
C25_RecordsAreCopies ==
  /\ Len(iters) = Len(steps)
  /\ \A i \in 1..Len(steps) :
       LET r == iters[i]
           s == steps[i]
       IN  CASE args.method = "bisection" ->
                  /\ r.a = formatIterationValue(s.a)
                  /\ r.b = formatIterationValue(s.b)
                  /\ r.mid = formatIterationValue(s.cand)
                  /\ r.fx = formatIterationValue(s.fcand)
             [] args.method = "falsePosition" ->
                  /\ r.a = formatIterationValue(s.a)
                  /\ r.b = formatIterationValue(s.b)
                  /\ r.c = formatIterationValue(s.cand)
                  /\ r.fc = formatIterationValue(s.fcand)
             [] args.method = "fixedPoint" ->
                  /\ r.x = formatIterationValue(s.x)
                  /\ r.gx = formatIterationValue(s.xnext)
             [] args.method = "newton" ->
                  /\ r.x = formatIterationValue(s.x)
                  /\ r.xnext = formatIterationValue(s.xnext)
             [] args.method = "secant" ->
                  /\ r.xprev = formatIterationValue(s.xprev)
                  /\ r.x = formatIterationValue(s.x)
                  /\ r.xnext = formatIterationValue(s.xnext)
             [] OTHER -> TRUE

\* pass i worked on the unrounded values: its candidate is computed from them
C25_PassUnrounded(i) ==
  LET s == steps[i]
  IN  CASE args.method = "bisection" ->
             /\ s.cand = Div(Add(s.a, s.b), Num(2))
             /\ s.fcand = evalf(args.expr, s.cand)
             /\ s.width = NAbs(Sub(s.b, s.a))
        [] args.method = "falsePosition" ->
             /\ s.cand = Div(Sub(Mul(s.a, s.fb), Mul(s.b, s.fa)), Sub(s.fb, s.fa))
             /\ s.fcand = evalf(args.expr, s.cand)
        [] args.method = "fixedPoint" ->
             /\ s.xnext = evalf(args.gexpr, s.x)
             /\ s.diff = NAbs(Sub(s.xnext, s.x))
        [] args.method = "newton" ->
             /\ s.fx = evalf(args.expr, s.x)
             /\ s.xnext = Sub(s.x, Div(s.fx, s.dfx))
             /\ s.diff = NAbs(Sub(s.xnext, s.x))
        [] args.method = "secant" ->
             /\ s.fx = evalf(args.expr, s.x)
             /\ s.fprev = evalf(args.expr, s.xprev)
             /\ s.xnext = Sub(s.x, Div(Mul(s.fx, Sub(s.x, s.xprev)),
                                       Sub(s.fx, s.fprev)))
        [] OTHER -> TRUE

\* pass i + 1 started from the unrounded values pass i left
C25_CarriedUnrounded(i) ==
  LET s == steps[i]
      t == steps[i + 1]
  IN  CASE args.method \in Bracketing ->
             \/ t.a = s.a /\ t.fa = s.fa /\ t.b = s.cand /\ t.fb = s.fcand
             \/ t.b = s.b /\ t.fb = s.fb /\ t.a = s.cand /\ t.fa = s.fcand
        [] args.method \in {"fixedPoint", "newton"} -> t.x = s.xnext
        [] args.method = "secant" ->
             t.xprev = s.x /\ t.fprev = s.fx /\ t.x = s.xnext
        [] OTHER -> TRUE

\* the convergence test of pass i, on the unrounded values
C25_TestUnrounded(i) ==
  LET s == steps[i]
  IN  CASE args.method = "bisection" ->
             Less(NAbs(s.fcand), args.tol) \/ Less(Div(s.width, Num(2)), args.tol)
        [] args.method = "falsePosition" -> Less(NAbs(s.fcand), args.tol)
        [] args.method = "fixedPoint" -> Less(s.diff, args.tol)
        [] args.method \in {"newton", "secant"} ->
             Less(s.diff, args.tol) \/ Less(NAbs(s.fx), args.tol)
        [] OTHER -> FALSE

\* C25: in every solver formatIterationValue is applied only to the values
\* copied into a record; the loop variables, the convergence tests and
\* summary.root use the unrounded values, so the iterates are those of a run
\* without rounding.
C25_RoundingOnlyInRecords ==
  args.method \in {"bisection", "falsePosition", "fixedPoint", "newton", "secant"} =>
    /\ C25_RecordsAreCopies
    /\ \A i \in 1..Len(steps) : C25_PassUnrounded(i)
    /\ \A i \in 1..(Len(steps) - 1) :
         C25_CarriedUnrounded(i) /\ ~C25_TestUnrounded(i)
    /\ (pc = "returned" /\ Len(steps) >= 1) =>
         /\ converged = C25_TestUnrounded(Len(steps))
         /\ result.summary.root =
              (IF args.method \in Bracketing THEN Last(steps).cand
               ELSE Last(steps).xnext)

\* a call has returned a root ten decimals cannot hold, after passes whose
\* endpoints and candidates ten decimals cannot hold either
C25_Witness ==
  /\ pc = "returned" /\ args.method = "bisection" /\ Len(steps) >= 3
  /\ C25_Lossy(result.summary.root)
  /\ \E i \in 1..(Len(steps) - 1) :
       /\ C25_Lossy(steps[i].cand) /\ C25_Lossy(steps[i].fcand)
       /\ C25_Lossy(steps[i + 1].a) \/ C25_Lossy(steps[i + 1].b)

\* solveSecant has passed on an iterate and a function value ten decimals
\* cannot hold
C25_SecantWitness ==
  /\ args.method = "secant" /\ Len(steps) >= 2
  /\ C25_Lossy(steps[2].x) /\ C25_Lossy(steps[2].fx)

\* solveSecant is at the head of its loop
C26_LoopHead == pc = "secant" /\ ~converged

\* C26: in solveSecant, at the start of every iteration fx = f(x) and
\* fprev = f(xprev); the first iteration has xprev = x0 and x = x1; of two
\* consecutive recorded iterations the later has as xprev, fprev and x the x,
\* fx and xNext of the earlier.
C26_SlidingPair ==
  /\ C26_LoopHead =>
        /\ loc.fx = evalf(args.expr, loc.x)
        /\ loc.fprev = evalf(args.expr, loc.xprev)
        /\ loc.k = 0 => loc.xprev = args.x0 /\ loc.x = args.x1
        /\ loc.k = Len(steps)
        /\ loc.k >= 1 =>
              /\ loc.xprev = Last(steps).x
              /\ loc.fprev = Last(steps).fx
              /\ loc.x = Last(steps).xnext
  /\ args.method = "secant" =>
        /\ Len(iters) >= 1 =>
              /\ iters[1].xprev = formatIterationValue(args.x0)
              /\ iters[1].x = formatIterationValue(args.x1)
        /\ \A k \in 1..(Len(iters) - 1) :
              /\ iters[k + 1].iter = iters[k].iter + 1
              /\ iters[k + 1].xprev = iters[k].x
              /\ iters[k + 1].fprev = iters[k].fx
              /\ iters[k + 1].x = iters[k].xnext

\* two iterations recorded from distinct guesses, the second on a new pair
C26_Witness ==
  /\ args.method = "secant" /\ Len(iters) = 2
  /\ args.x0 # args.x1
  /\ iters[2].xprev # iters[1].xprev /\ iters[2].x # iters[1].x
  /\ iters[2].x # iters[2].xprev
  /\ iters[2].fprev # iters[1].fprev

\* v lies in the closed interval between p and q, whichever is the larger
C27_Between(v, p, q) ==
  /\ IsFinite(v)
  /\ LessEq(NMin(p, q), v) /\ LessEq(v, NMax(p, q))

\* C27: for every valid bracket (a0 > b0, a0 = b0 and zeros at the endpoints
\* included) every candidate of solveBisection and solveFalsePosition is
\* finite and lies in the closed interval between the current a and b, so the
\* brackets are nested and summary.root lies between a0 and b0.
C27_CandidateInBracket ==
  args.method \in Bracketing =>
    /\ \A i \in 1..Len(steps) :
         /\ C27_Between(steps[i].cand, steps[i].a, steps[i].b)
         /\ C27_Between(steps[i].a, args.a0, args.b0)
         /\ C27_Between(steps[i].b, args.a0, args.b0)
    /\ \A i \in 1..(Len(steps) - 1) :
         /\ C27_Between(steps[i + 1].a, steps[i].a, steps[i].b)
         /\ C27_Between(steps[i + 1].b, steps[i].a, steps[i].b)
    /\ (pc = "returned" /\ Len(steps) >= 1) =>
         C27_Between(result.summary.root, args.a0, args.b0)

\* C28: in MethodVisualizer, for a fixed result, after any sequence of
\* play/pause, step forward, step back, reset and timer ticks the step counter
\* satisfies 0 <= step <= iterations.length; after the result or the method
\* changes, the reset effect brings the state back to step = 0 and
\* playing = false.
C28_StepInRange ==
  /\ []((pc = "mounted" /\ ~loc.pendingReset) =>
          (0 <= loc.step /\ loc.step <= Len(iters)))
  /\ [][(pc = "mounted" /\ loc.pendingReset /\ ~loc'.pendingReset) =>
          (loc'.step = 0 /\ ~loc'.playing)]_vars

\* the reset effect has run after the props changed to a result of one
\* iteration
C28_Witness ==
  /\ pc = "mounted" /\ loc.last = "resetEffect"
  /\ loc.step = 0 /\ ~loc.playing /\ Len(iters) = 1

\* playback has reached the end of the longest result
C28_EndWitness ==
  /\ pc = "mounted" /\ loc.last = "tick"
  /\ loc.step = MaxFrames /\ Len(iters) = MaxFrames /\ loc.playing

\* the handlers that end playback
C29_Stoppers == {"pause", "stepForward", "stepBack", "reset"}

\* C29: in MethodVisualizer each timer tick advances step by exactly one;
\* once playback is started and no further input occurs it stops by itself
\* with step = iterations.length and playing = false (at once when there are
\* no iterations); play pressed at the end restarts from step 0; after pause,
\* step forward, step back or reset no timeout is left pending.
C29_Playback ==
  /\ [][(pc = "mounted" /\ loc'.last = "tick" /\ ~loc.pendingReset) =>
          loc'.step = loc.step + 1]_vars
  /\ []((pc = "mounted" /\ loc.quiet /\ loc.playing /\ ~loc.pendingReset) =>
          <>(~loc.playing /\ loc.step = Len(iters) /\ loc.timer = NoTimer))
  /\ [][(pc = "mounted" /\ loc'.last = "play" /\ loc.step >= Len(iters)) =>
          /\ loc'.step = 0
          /\ loc'.playing = (Len(iters) > 0 /\ ~loc.pendingReset)]_vars
  /\ []((pc = "mounted" /\ loc.last \in C29_Stoppers) =>
          (~loc.playing /\ loc.timer = NoTimer))

\* playback went on after the user left and has ended by itself at the end
\* of the longest result
C29_Witness ==
  /\ pc = "mounted" /\ loc.quiet /\ loc.last = "effects"
  /\ ~loc.playing /\ loc.step = MaxFrames /\ Len(iters) = MaxFrames
  /\ loc.timer = NoTimer /\ ~loc.pendingAnimation

\* playback was paused while a timeout was pending
C29_PausedWitness ==
  /\ pc = "mounted" /\ loc.last = "pause"
  /\ loc.step >= 1 /\ loc.step < Len(iters)

\* C30: in the solver page at most one run is pending at a time and
\* isRunning is true exactly while one is; the result shown was computed for
\* the method selected, by a run started after the method was last changed:
\* a result computed for a method selected before is never shown under the
\* one selected now.
C30_ResultOfSelectedMethod ==
  pc = "page" =>
    /\ loc.isRunning = (loc.pending # NoRun)
    /\ loc.shown # NoResult =>
         /\ loc.shown.by = loc.method
         /\ ~loc.shown.stale

\* the runs themselves: one at a time, on the captured method and inputs,
\* and isRunning back to false after a result and after an error
C30_OneRunAtATime ==
  pc = "page" =>
    /\ loc.isRunning = (loc.pending # NoRun)
    /\ loc.shown # NoResult =>
         (loc.shown.by \in PageMethods /\ loc.shown.inputs \in InputSets)

====
